---- MODULE Spec2Model ----
(***************************************************************************)
(* HDFS cost advisor: the metadata classifier (hdfs/analyzer.py), the cost *)
(* calculator (cost/calculator.py), the plan builder                       *)
(* (endpoints/optimize.py), the advisory client's fallback (llm/client.py), *)
(* the in-process result stores (endpoints/scan.py, optimize.py,           *)
(* generate_script.py) and the MCPServer tool handlers (server.py).        *)
(*                                                                         *)
(* Conventions of the model                                                *)
(*  - a Python dict is a function whose DOMAIN is its set of keys; d.get   *)
(*    is Get(d, k, default);                                               *)
(*  - a Python str that the code takes apart (a path) is a tuple of        *)
(*    one-character strings;                                               *)
(*  - a Python number that the code divides is an exact rational           *)
(*    [n |-> numerator, d |-> denominator > 0] in lowest terms;            *)
(*  - a call that raises returns Raise(kind, argument) instead of a value; *)
(*  - timestamps count ticks of 12 hours instead of milliseconds           *)
(*    (TicksPerDay stands for 24*60*60*1000), which keeps every value      *)
(*    inside TLC's integers; all the code's uses of time are linear.       *)
(***************************************************************************)
EXTENDS Integers, Sequences, FiniteSets, TLC

VARIABLES
    \* ---- endpoints/scan.py, endpoints/optimize.py, generate_script.py
    scan_results_storage,          \* scan_id -> scan results
    optimization_results_storage,  \* optimization_id -> optimization results
    script_storage,                \* plan_id -> stored plan entry
    uuid_counter,                  \* number of uuid4() values handed out
    tasks,                         \* generate_recommendations calls waiting at the await
    last,                          \* the most recent finished tool call and what it returned
    issued,                        \* scan ids scan_hdfs returned as completed, no delete since
    \* ---- hdfs/analyzer.py called on its own
    file_metadata,                 \* the input list of file records
    cold_threshold_days,           \* identify_cold_data's second argument
    current_time,                  \* datetime.now() as a call read it last, in ticks
    classifier_call,               \* the classifier function applied last
    classifier_result,             \* what it returned (or Raise)
    repeated,                      \* the call before was of the same function
    \* ---- cost/calculator.py called on its own
    calc_scan,                     \* the scan_results handed to the calculator
    calc_optimizations,            \* the optimizations handed to the calculator
    growth_rate_percent,           \* estimate_storage_growth's second argument
    calculator_call,               \* the calculator operation applied last
    calculator_result,             \* what it returned (or Raise)
    \* ---- endpoints/optimize.py: an action constructor called on its own
    builder_scan,                  \* the scan_results handed to the constructor
    builder_recommendation,        \* the recommendation handed to it
    builder_call,                  \* the constructor applied last
    builder_result                 \* what it returned (or Raise)

server_vars == <<scan_results_storage, optimization_results_storage, script_storage,
                 uuid_counter, tasks, last, issued>>
classifier_vars == <<file_metadata, cold_threshold_days, current_time,
                     classifier_call, classifier_result, repeated>>
calculator_vars == <<calc_scan, calc_optimizations, growth_rate_percent,
                     calculator_call, calculator_result>>
builder_vars == <<builder_scan, builder_recommendation, builder_call, builder_result>>
vars == <<server_vars, classifier_vars, calculator_vars, builder_vars>>

----------------------------------------------------------------------------
(* Bounds of the model                                                     *)

\* longest input list of file records handed to a classifier function
MaxFiles == 2
\* most files in a scan handed to the calculator on its own
MaxCalcFiles == 1
\* most small files of one directory in a scan handed to an action constructor
MaxDirFiles == 10
\* uuid4() values the server hands out in one run
MaxUuid == 4
\* uuid4() values handed out in a run of concurrent optimizations
MaxConcurrentUuid == 8
\* generate_recommendations calls waiting at the await at the same time
MaxTasks == 2
\* longest list of optimizations handed to the calculator
MaxOptimizations == 2

----------------------------------------------------------------------------
(* Python values                                                           *)

EmptyDict == <<>>

\* d.get(k, default)
Get(d, k, default) == IF k \in DOMAIN d THEN d[k] ELSE default

\* {**d, k: v}
Put(d, k, v) == [x \in (DOMAIN d) \cup {k} |-> IF x = k THEN v ELSE d[x]]

\* what a call that can raise hands back: a value, or an exception in flight
Return(v) == [raised |-> FALSE, value |-> v]
Raise(kind, arg) == [raised |-> TRUE, exception |-> kind, arg |-> arg]

RECURSIVE GCD(_, _)
GCD(a, b) == IF b = 0 THEN a ELSE GCD(b, a % b)

Abs(a) == IF a < 0 THEN -a ELSE a

\* the rational num/den, den # 0, in lowest terms with a positive denominator
Sign(a) == IF a < 0 THEN -1 ELSE 1
Lowest(num, den, g) == [n |-> Sign(den) * (num \div g), d |-> Sign(den) * (den \div g)]
Rat(num, den) == Lowest(num, den, GCD(Abs(num), Abs(den)))

Int2Rat(i) == [n |-> i, d |-> 1]

\* the operations cancel common factors before they multiply, so that the
\* intermediate products stay as small as the result allows
AddOver(a, b, g) == Rat(a.n * (b.d \div g) + b.n * (a.d \div g), (a.d \div g) * b.d)
RAdd(a, b) == AddOver(a, b, GCD(a.d, b.d))
RNeg(a) == [n |-> -a.n, d |-> a.d]
RSub(a, b) == RAdd(a, RNeg(b))
MulOver(a, b, g1, g2) == Rat((a.n \div g1) * (b.n \div g2), (a.d \div g2) * (b.d \div g1))
RMul(a, b) == MulOver(a, b, GCD(Abs(a.n), b.d), GCD(Abs(b.n), a.d))
LtOver(a, b, g) == a.n * (b.d \div g) < b.n * (a.d \div g)
RLt(a, b) == LtOver(a, b, GCD(a.d, b.d))
RLe(a, b) == ~RLt(b, a)
RMin(a, b) == IF RLt(b, a) THEN b ELSE a

\* a / b: Python raises ZeroDivisionError when b is 0 (int or float)
RDiv(a, b) ==
    IF b.n = 0 THEN Raise("ZeroDivisionError", <<"division by zero">>)
    ELSE Return(RMul(a, Rat(b.d, b.n)))

RZero == Int2Rat(0)
ROne == Int2Rat(1)

\* sum(...) over a list of rationals
RECURSIVE RSum(_)
RSum(s) == IF s = <<>> THEN RZero ELSE RAdd(Head(s), RSum(Tail(s)))

\* sum(...) over a list of integers
RECURSIVE Sum(_)
Sum(s) == IF s = <<>> THEN 0 ELSE Head(s) + Sum(Tail(s))

\* [x for x in s if Test(x)]
Filter(s, Test(_)) ==
    LET F[i \in 0..Len(s)] ==
            IF i = 0 THEN <<>>
            ELSE IF Test(s[i]) THEN Append(F[i - 1], s[i]) ELSE F[i - 1]
    IN  F[Len(s)]

\* [F(x) for x in s]
Map(s, F(_)) == [i \in 1..Len(s) |-> F(s[i])]

\* the least element of a nonempty set of integers
Least(S) == CHOOSE i \in S : \A j \in S : i <= j

\* list.sort(key=..., reverse=True): stable, equal keys keep their order.
\* Before(x, y) says x's key is strictly greater than y's.
InsertAt(sorted, x, p) == SubSeq(sorted, 1, p - 1) \o <<x>> \o SubSeq(sorted, p, Len(sorted))
LeastOr(hits, otherwise) == IF hits = {} THEN otherwise ELSE Least(hits)
InsertDesc(sorted, x, Before(_, _)) ==
    InsertAt(sorted, x,
             LeastOr({i \in 1..Len(sorted) : Before(x, sorted[i])}, Len(sorted) + 1))

SortDesc(s, Before(_, _)) ==
    LET S[i \in 0..Len(s)] ==
            IF i = 0 THEN <<>> ELSE InsertDesc(S[i - 1], s[i], Before)
    IN  S[Len(s)]

----------------------------------------------------------------------------
(* Python strings taken apart: tuples of one-character strings             *)

UpperCase == <<"A", "B", "C", "D", "E", "F", "G", "H", "I", "J", "K", "L", "M",
               "N", "O", "P", "Q", "R", "S", "T", "U", "V", "W", "X", "Y", "Z">>
LowerCase == <<"a", "b", "c", "d", "e", "f", "g", "h", "i", "j", "k", "l", "m",
               "n", "o", "p", "q", "r", "s", "t", "u", "v", "w", "x", "y", "z">>

\* str.lower()
LowerAt(char, hits) == IF hits = {} THEN char ELSE LowerCase[Least(hits)]
Lower(str) == [i \in 1..Len(str) |-> LowerAt(str[i], {k \in 1..26 : UpperCase[k] = str[i]})]

\* pattern in str
Contains(str, pattern) ==
    \E i \in 0..(Len(str) - Len(pattern)) : SubSeq(str, i + 1, i + Len(pattern)) = pattern

\* str.split("/")
Split(str) ==
    LET P[i \in 0..Len(str)] ==
            IF i = 0 THEN <<<<>>>>
            ELSE IF str[i] = "/" THEN Append(P[i - 1], <<>>)
                 ELSE [P[i - 1] EXCEPT ![Len(P[i - 1])] = Append(@, str[i])]
    IN  P[Len(str)]

\* "/".join(parts)
Join(parts) ==
    LET J[i \in 0..Len(parts)] ==
            IF i = 0 THEN <<>>
            ELSE IF i = 1 THEN parts[1]
                 ELSE J[i - 1] \o <<"/">> \o parts[i]
    IN  J[Len(parts)]

\* parts[:-1] and parts[-1]
AllButLast(parts) == SubSeq(parts, 1, Len(parts) - 1)
LastOf(parts) == parts[Len(parts)]

\* "/".join(path.split("/")[:-1])
ParentOf(path) == Join(AllButLast(Split(path)))

----------------------------------------------------------------------------
(* hdfs/analyzer.py: HDFSMetadataAnalyzer                                  *)

\* 24 * 60 * 60 * 1000 milliseconds, counted in ticks of 12 hours
TicksPerDay == 2

DefaultColdThresholdDays == 180
\* the small-file limit read as "at most 64 MiB"
SmallFileLimitInclusive == (64 * 1024 * 1024) + 1
SmallFileLimit == 64 * 1024 * 1024
TinyFileLimit == 1024 * 1024
GiB == 1024 * 1024 * 1024
MaxReplication == 3
OrphanAgeDays == 7
HighPriorityAgeDays == 30
CriticalAgeDays == 90
MetadataOverheadBytes == 150

temp_patterns ==
    << <<"/", "t", "m", "p", "/">>,
       <<"/", "v", "a", "r", "/", "t", "m", "p", "/">>,
       <<"/", "_", "t", "e", "m", "p", "o", "r", "a", "r", "y", "/">>,
       <<"/", "t", "e", "m", "p", "/">>,
       <<".", "t", "m", "p">>,
       <<".", "t", "e", "m", "p">>,
       <<".", "b", "a", "k">>,
       <<".", "b", "a", "c", "k", "u", "p">>,
       <<"_", "t", "m", "p">>,
       <<"_", "t", "e", "m", "p">> >>

\* (current_time - t) / (24 * 60 * 60 * 1000)
DaysSince(now, t) == Rat(now - t, TicksPerDay)

\* file_info.get("size", 0), .get("replication", 1), .get("path", "")
SizeOf(file_info) == Get(file_info, "size", 0)
ReplicationOf(file_info) == Get(file_info, "replication", 1)
PathOf(file_info) == Get(file_info, "path", <<>>)

\* a variant whose score is the ratio itself, not capped at 1.0
ColdRecordWithRatio(file_info, days_since_access, ratio) ==
    IF ratio.raised THEN ratio
    ELSE Return(Put(Put(Put(file_info, "classification", "cold"),
                        "days_since_access", days_since_access),
                    "cold_score", ratio.value))

\* the record appended for a cold file, or the exception of the division
ColdRecordWith(file_info, days_since_access, ratio) ==
    IF ratio.raised THEN ratio
    ELSE Return(Put(Put(Put(file_info, "classification", "cold"),
                        "days_since_access", days_since_access),
                    "cold_score", RMin(ratio.value, ROne)))

ColdRecordAfter(file_info, days_since_access, threshold_days) ==
    ColdRecordWith(file_info, days_since_access,
                   RDiv(days_since_access, Int2Rat(threshold_days)))

\* one iteration of identify_cold_data's loop: the record appended, or the
\* exception of the division by cold_threshold_days
ColdRecord(file_info, now, threshold_days) ==
    ColdRecordAfter(file_info, DaysSince(now, Get(file_info, "access_time", 0)),
                    threshold_days)

IsCold(file_info, now, threshold_days) ==
    Get(file_info, "access_time", 0) < now - (threshold_days * TicksPerDay)

\* the first exception among the outcomes of a loop's iterations
FirstRaised(made) ==
    made[Least({i \in 1..Len(made) : made[i].raised})]

\* the loop's outcome: its first exception, or the records sorted by cold_score
ColdListing(made) ==
    IF \E i \in 1..Len(made) : made[i].raised
    THEN FirstRaised(made)
    ELSE Return(SortDesc(Map(made, LAMBDA r : r.value),
                         LAMBDA x, y : RLt(y.cold_score, x.cold_score)))

identify_cold_data(files, now, threshold_days) ==
    ColdListing(Map(Filter(files, LAMBDA f : IsCold(f, now, threshold_days)),
                    LAMBDA f : ColdRecord(f, now, threshold_days)))

\* if key not in keys: keys.append(key)
AppendNew(keys, key) ==
    IF \E j \in 1..Len(keys) : keys[j] = key THEN keys ELSE Append(keys, key)

\* the distinct values of Key over the list, in order of first occurrence
\* (the key order of a dict filled while iterating the list)
KeysInOrder(s, Key(_)) ==
    LET K[i \in 0..Len(s)] ==
            IF i = 0 THEN <<>> ELSE AppendNew(K[i - 1], Key(s[i]))
    IN  K[Len(s)]

\* concatenation of a list of lists
Flatten(ss) ==
    LET C[i \in 0..Len(ss)] == IF i = 0 THEN <<>> ELSE C[i - 1] \o ss[i]
    IN  C[Len(ss)]

\* path.split("/")[-1] if path else ""
FileName(path) == IF path # <<>> THEN LastOf(Split(path)) ELSE <<>>

\* the record appended for a file of a group of group_size files of one size
DuplicateCandidate(file_info, group_size) ==
    Put(Put(Put(Put(file_info, "classification", "potential_duplicate"),
                "group_size", group_size),
            "filename", FileName(PathOf(file_info))),
        "duplicate_score", Rat(group_size, 10))

\* what one entry of size_groups adds to duplicate_candidates
DuplicatesOfGroup(group) ==
    IF Len(group) > 1
    THEN Map(group, LAMBDA f : DuplicateCandidate(f, Len(group)))
    ELSE <<>>

\* size_groups in key order, over the files of positive size
SizeGroups(sized) ==
    Map(KeysInOrder(sized, SizeOf),
        LAMBDA size : Filter(sized, LAMBDA f : SizeOf(f) = size))

detect_duplicate_candidates(files) ==
    SortDesc(Flatten(Map(SizeGroups(Filter(files, LAMBDA f : SizeOf(f) > 0)),
                         DuplicatesOfGroup)),
             LAMBDA x, y : RLt(y.duplicate_score, x.duplicate_score))

\* count / total_files * 100 if total_files > 0 else 0
Percentage(count, total) == IF total > 0 THEN Rat(count * 100, total) ELSE RZero

EmptyFiles(files) ==
    Map(Filter(files, LAMBDA f : SizeOf(f) = 0),
        LAMBDA f : Put(Put(f, "classification", "empty_file"),
                       "efficiency_impact", "medium"))

SmallFiles(files) ==
    Map(Filter(files, LAMBDA f : SizeOf(f) # 0 /\ SizeOf(f) < SmallFileLimit),
        LAMBDA f : Put(Put(Put(f, "classification", "small_file"),
                           "efficiency_impact",
                           IF SizeOf(f) < TinyFileLimit THEN "high" ELSE "medium"),
                       "size_mb", Rat(SizeOf(f), 1024 * 1024)))

OverReplicated(files) ==
    Map(Filter(files, LAMBDA f : ReplicationOf(f) > MaxReplication),
        LAMBDA f : Put(Put(Put(Put(f, "classification", "over_replicated"),
                               "current_replication", ReplicationOf(f)),
                           "suggested_replication", MaxReplication),
                       "excess_replicas", ReplicationOf(f) - MaxReplication))

\* the dict analyze_file_efficiency returns
EfficiencyReport(total_files, small_files, empty_files, inefficient_replication) ==
    [total_files |-> total_files,
     small_files |-> small_files,
     small_files_count |-> Len(small_files),
     small_files_percentage |-> Percentage(Len(small_files), total_files),
     empty_files |-> empty_files,
     empty_files_count |-> Len(empty_files),
     inefficient_replication |-> inefficient_replication,
     over_replicated_count |-> Len(inefficient_replication),
     over_replicated_percentage |-> Percentage(Len(inefficient_replication), total_files),
     efficiency_summary |->
        [critical_issues |->
            Len(empty_files)
            + Len(Filter(small_files, LAMBDA f : f.efficiency_impact = "high")),
         moderate_issues |->
            Len(Filter(small_files, LAMBDA f : f.efficiency_impact = "medium")),
         storage_waste_factor |->
            RAdd(Rat(Len(small_files), 10), Rat(Len(inefficient_replication) * 2, 10))]]

analyze_file_efficiency(files) ==
    EfficiencyReport(Len(files), SmallFiles(files), EmptyFiles(files), OverReplicated(files))

\* any(pattern in path.lower() for pattern in temp_patterns)
MatchesAny(lowered, patterns) ==
    \E k \in 1..Len(patterns) : Contains(lowered, patterns[k])
IsTemp(path) == MatchesAny(Lower(path), temp_patterns)

\* next((p for p in temp_patterns if p in path.lower()), "unknown")
FirstMatch(patterns, hits) ==
    IF hits = {} THEN <<"u", "n", "k", "n", "o", "w", "n">> ELSE patterns[Least(hits)]
FirstMatching(lowered, patterns) ==
    FirstMatch(patterns, {k \in 1..Len(patterns) : Contains(lowered, patterns[k])})
FirstTempPattern(path) == FirstMatching(Lower(path), temp_patterns)

\* cleanup_priority without its "critical" level
CleanupPriorityTwoLevels(age_days) ==
    IF RLt(Int2Rat(HighPriorityAgeDays), age_days) THEN "high" ELSE "medium"

CleanupPriority(age_days) ==
    IF RLt(Int2Rat(CriticalAgeDays), age_days) THEN "critical"
    ELSE IF RLt(Int2Rat(HighPriorityAgeDays), age_days) THEN "high" ELSE "medium"

\* file_age_days
AgeDays(file_info, now) == DaysSince(now, Get(file_info, "modification_time", 0))

\* the record appended for an orphaned temporary file
OrphanRecord(file_info, file_age_days) ==
    Put(Put(Put(Put(file_info, "classification", "orphaned_temp"),
                "age_days", file_age_days),
            "cleanup_priority", CleanupPriority(file_age_days)),
        "temp_pattern", FirstTempPattern(PathOf(file_info)))

IsOrphan(file_info, now) ==
    IsTemp(PathOf(file_info)) /\ RLt(Int2Rat(OrphanAgeDays), AgeDays(file_info, now))

identify_orphaned_temp_files(files, now) ==
    SortDesc(Map(Filter(files, LAMBDA f : IsOrphan(f, now)),
                 LAMBDA f : OrphanRecord(f, AgeDays(f, now))),
             LAMBDA x, y : RLt(y.age_days, x.age_days))

\* "/".join(path.split("/")[:-1]) if "/" in path else "/"
DirectoryOf(path) == IF Contains(path, <<"/">>) THEN ParentOf(path) ELSE <<"/">>

\* directory_stats[directory] after the loops, from the directory's files
StatsFrom(file_count, total_size, small_files) ==
    [file_count |-> file_count,
     total_size |-> total_size,
     small_files |-> small_files,
     large_files |-> file_count - small_files,
     avg_file_size |-> Rat(total_size, file_count),
     small_file_ratio |-> Rat(small_files, file_count)]

DirectoryStats(members) ==
    StatsFrom(Len(members), Sum(Map(members, SizeOf)),
              Len(Filter(members, LAMBDA f : SizeOf(f) < SmallFileLimit)))

\* directory_stats: a dict keyed by directory
AllDirectoryStats(files, directories) ==
    [dir \in {directories[i] : i \in 1..Len(directories)} |->
        DirectoryStats(Filter(files, LAMBDA f : DirectoryOf(PathOf(f)) = dir))]

ProblematicDirectories(directories, directory_stats) ==
    Map(Filter(directories,
               LAMBDA dir : RLt(Rat(7, 10), directory_stats[dir].small_file_ratio)
                            /\ directory_stats[dir].file_count > 10),
        LAMBDA dir : [directory |-> dir,
                      issue |-> "high_small_file_ratio",
                      small_file_ratio |-> directory_stats[dir].small_file_ratio,
                      file_count |-> directory_stats[dir].file_count,
                      total_size_mb |-> Rat(directory_stats[dir].total_size, 1024 * 1024),
                      optimization_potential |-> "file_consolidation"])

\* the dict analyze_directory_structure returns
DirectoryReport(directories, directory_stats, problematic_directories) ==
    [directory_stats |-> directory_stats,
     problematic_directories |-> problematic_directories,
     total_directories |-> Len(directories),
     consolidation_candidates |-> Len(problematic_directories)]

DirectoryReportWith(directories, directory_stats) ==
    DirectoryReport(directories, directory_stats,
                    ProblematicDirectories(directories, directory_stats))

DirectoryReportOver(files, directories) ==
    DirectoryReportWith(directories, AllDirectoryStats(files, directories))

analyze_directory_structure(files) ==
    DirectoryReportOver(files, KeysInOrder(files, LAMBDA f : DirectoryOf(PathOf(f))))

\* the dict calculate_storage_waste returns
WasteReport(total_size, replication_waste, empty_file_waste, small_file_overhead) ==
    [total_size_bytes |-> total_size,
     total_size_gb |-> Rat(total_size, GiB),
     replication_waste_bytes |-> replication_waste,
     replication_waste_gb |-> Rat(replication_waste, GiB),
     empty_file_waste_bytes |-> empty_file_waste,
     small_file_overhead_bytes |-> small_file_overhead,
     total_waste_bytes |-> replication_waste + empty_file_waste + small_file_overhead,
     waste_percentage |->
        IF total_size > 0
        THEN RMul(Rat(replication_waste + empty_file_waste + small_file_overhead,
                      total_size),
                  Int2Rat(100))
        ELSE RZero]

calculate_storage_waste(files) ==
    WasteReport(
        Sum(Map(files, SizeOf)),
        Sum(Map(Filter(files, LAMBDA f : ReplicationOf(f) > MaxReplication),
                LAMBDA f : SizeOf(f) * (ReplicationOf(f) - MaxReplication))),
        Sum(Map(Filter(files, LAMBDA f : SizeOf(f) = 0),
                LAMBDA f : Get(f, "block_size", 0))),
        Len(Filter(files, LAMBDA f : SizeOf(f) < SmallFileLimit)) * MetadataOverheadBytes)

priority_order == [high |-> 3, medium |-> 2, low |-> 1]

\* the sort key with the priority alone
RankedByPriority(x, y) == priority_order[x.priority] > priority_order[y.priority]

\* the sort key (priority_order[priority], priority_order[impact]), compared as a tuple
RankedBefore(x, y) ==
    \/ priority_order[x.priority] > priority_order[y.priority]
    \/ /\ priority_order[x.priority] = priority_order[y.priority]
       /\ priority_order[x.impact] > priority_order[y.impact]

\* the entries generate_optimization_priority appends, in the order of its tests
ColdOpportunity(cold_data) ==
    IF cold_data # <<>>
    THEN << [type |-> "cold_data_migration", priority |-> "high", impact |-> "high",
             affected_files |-> Len(cold_data),
             potential_savings_gb |->
                RMul(Rat(Sum(Map(cold_data, SizeOf)), GiB), Rat(7, 10))] >>
    ELSE <<>>

SmallFilesOpportunity(efficiency_analysis) ==
    IF efficiency_analysis.small_files_count > 0
    THEN << [type |-> "small_file_consolidation", priority |-> "high",
             impact |-> "medium",
             affected_files |-> efficiency_analysis.small_files_count,
             potential_savings_gb |-> Rat(efficiency_analysis.small_files_count, 1000)] >>
    ELSE <<>>

OrphanedOpportunity(orphaned_files) ==
    IF orphaned_files # <<>>
    THEN << [type |-> "orphaned_file_cleanup", priority |-> "medium",
             impact |-> "medium",
             affected_files |-> Len(orphaned_files),
             potential_savings_gb |-> Rat(Sum(Map(orphaned_files, SizeOf)), GiB)] >>
    ELSE <<>>

ReplicationOpportunity(efficiency_analysis, waste_analysis) ==
    IF efficiency_analysis.over_replicated_count > 0
    THEN << [type |-> "replication_optimization", priority |-> "medium",
             impact |-> "high",
             affected_files |-> efficiency_analysis.over_replicated_count,
             potential_savings_gb |-> waste_analysis.replication_waste_gb] >>
    ELSE <<>>

PriorityList(cold_call, efficiency_analysis, orphaned_files, waste_analysis) ==
    IF cold_call.raised THEN cold_call
    ELSE Return(SortDesc(ColdOpportunity(cold_call.value)
                         \o SmallFilesOpportunity(efficiency_analysis)
                         \o OrphanedOpportunity(orphaned_files)
                         \o ReplicationOpportunity(efficiency_analysis, waste_analysis),
                         RankedBefore))

generate_optimization_priority(files, now) ==
    PriorityList(identify_cold_data(files, now, DefaultColdThresholdDays),
                 analyze_file_efficiency(files),
                 identify_orphaned_temp_files(files, now),
                 calculate_storage_waste(files))

----------------------------------------------------------------------------
(* cost/calculator.py: StorageCosts, OptimizationSavings, CostCalculator   *)

\* float('inf'): the rational with denominator 0
Infinity == [n |-> 1, d |-> 0]

\* StorageCosts(): dollars per GB and month, per file and month, per GB moved
StorageCosts ==
    [standard_storage_cost_per_gb |-> Rat(4, 100),
     cold_storage_cost_per_gb |-> Rat(1, 100),
     archive_storage_cost_per_gb |-> Rat(5, 1000),
     replication_multiplier |-> ROne,
     metadata_cost_per_file |-> Rat(1, 10000),
     network_cost_per_gb |-> Rat(1, 100)]

\* sum(file.get("size", 0) for file in files) / (1024 ** 3)
SizeGb(files) == Rat(Sum(Map(files, SizeOf)), GiB)

\* size_gb * cost_per_gb * factor
StorageCost(size_gb, cost_per_gb, factor) == RMul(RMul(size_gb, cost_per_gb), factor)

\* (savings / current_cost) * 100 if current_cost > 0 else 0
SavingsPercent(savings, current_cost) ==
    IF RLt(RZero, current_cost)
    THEN RMul(RDiv(savings, current_cost).value, Int2Rat(100))
    ELSE RZero

OptimizationSavings(category, current_cost, optimized_cost, savings, savings_percent, affected_data_gb, implementation_cost) ==
    [category |-> category,
     current_cost |-> current_cost,
     optimized_cost |-> optimized_cost,
     savings |-> savings,
     savings_percent |-> savings_percent,
     affected_data_gb |-> affected_data_gb,
     implementation_cost |-> implementation_cost,
     annual_savings |-> RMul(savings, Int2Rat(12))]

\* the dict calculate_current_costs returns
CurrentCosts(total_size_gb, storage_cost, metadata_cost, small_file_overhead, network_cost, total_cost) ==
    [storage_cost |-> storage_cost,
     metadata_cost |-> metadata_cost,
     small_file_overhead |-> small_file_overhead,
     network_cost |-> network_cost,
     total_monthly_cost |-> total_cost,
     total_annual_cost |-> RMul(total_cost, Int2Rat(12)),
     cost_per_gb |->
        IF RLt(RZero, total_size_gb) THEN RDiv(total_cost, total_size_gb).value
        ELSE RZero]

CurrentCostsOf(total_size_gb, storage_cost, metadata_cost, small_file_overhead, network_cost) ==
    CurrentCosts(total_size_gb, storage_cost, metadata_cost, small_file_overhead,
                 network_cost,
                 RAdd(RAdd(storage_cost, metadata_cost),
                      RAdd(small_file_overhead, network_cost)))

CurrentCostsFor(costs, total_size_gb, total_files, small_files) ==
    CurrentCostsOf(total_size_gb,
                   StorageCost(total_size_gb, costs.standard_storage_cost_per_gb, Int2Rat(3)),
                   RMul(Int2Rat(total_files), costs.metadata_cost_per_file),
                   Rat(Len(small_files), 1000),
                   RMul(total_size_gb, Rat(5, 1000)))

calculate_current_costs(costs, scan_results) ==
    CurrentCostsFor(costs,
                    Get(scan_results, "total_size_gb", RZero),
                    Get(scan_results, "total_files", 0),
                    Get(scan_results, "small_files", <<>>))

\* savings = current_cost - optimized_cost and
\* savings_percent = (savings / current_cost) * 100 if current_cost > 0 else 0
SavingsWith(category, current_cost, optimized_cost, savings, affected_data_gb, implementation_cost) ==
    OptimizationSavings(category, current_cost, optimized_cost, savings,
                        SavingsPercent(savings, current_cost),
                        affected_data_gb, implementation_cost)

SavingsBetween(category, current_cost, optimized_cost, affected_data_gb, implementation_cost) ==
    SavingsWith(category, current_cost, optimized_cost,
                RSub(current_cost, optimized_cost), affected_data_gb, implementation_cost)

ColdDataSavings(costs, cold_data_size_gb) ==
    SavingsBetween("cold_data",
                   StorageCost(cold_data_size_gb, costs.standard_storage_cost_per_gb, Int2Rat(3)),
                   StorageCost(cold_data_size_gb, costs.cold_storage_cost_per_gb, Rat(3, 2)),
                   cold_data_size_gb,
                   RMul(cold_data_size_gb, costs.network_cost_per_gb))

_calculate_cold_data_savings(costs, scan_results, optimization) ==
    ColdDataSavings(costs, SizeGb(Get(scan_results, "cold_data", <<>>)))

SmallFileSavings(costs, small_file_count, small_file_size_gb) ==
    SavingsBetween("small_files",
                   RAdd(StorageCost(Int2Rat(small_file_count), costs.metadata_cost_per_file,
                                    Int2Rat(100)),
                        StorageCost(small_file_size_gb, costs.standard_storage_cost_per_gb,
                                    Int2Rat(3))),
                   RAdd(StorageCost(Rat(small_file_count, 10), costs.metadata_cost_per_file,
                                    Int2Rat(100)),
                        StorageCost(small_file_size_gb, costs.standard_storage_cost_per_gb,
                                    Int2Rat(3))),
                   small_file_size_gb,
                   Rat(small_file_count, 10000))

SmallFileSavingsOf(costs, small_files) ==
    SmallFileSavings(costs, Len(small_files), SizeGb(small_files))

_calculate_small_file_savings(costs, scan_results, optimization) ==
    SmallFileSavingsOf(costs, Get(scan_results, "small_files", <<>>))

ReplicationSavings(costs, total_size_gb) ==
    SavingsBetween("replication",
                   StorageCost(total_size_gb, costs.standard_storage_cost_per_gb, Int2Rat(4)),
                   StorageCost(total_size_gb, costs.standard_storage_cost_per_gb, Int2Rat(3)),
                   total_size_gb,
                   RZero)

_calculate_replication_savings(costs, scan_results, optimization) ==
    ReplicationSavings(costs,
        SizeGb(Get(Get(scan_results, "efficiency_analysis", EmptyDict),
                   "inefficient_replication", <<>>)))

\* savings_percent = 100.0, optimized_cost = 0
CleanupSavings(current_cost, orphaned_size_gb) ==
    OptimizationSavings("cleanup", current_cost, RZero, RSub(current_cost, RZero),
                        Int2Rat(100), orphaned_size_gb, RZero)

CleanupSavingsOf(costs, orphaned_files, orphaned_size_gb) ==
    CleanupSavings(RAdd(StorageCost(orphaned_size_gb, costs.standard_storage_cost_per_gb,
                                    Int2Rat(3)),
                        RMul(Int2Rat(Len(orphaned_files)), costs.metadata_cost_per_file)),
                   orphaned_size_gb)

OrphanedSavings(costs, orphaned_files) ==
    CleanupSavingsOf(costs, orphaned_files, SizeGb(orphaned_files))

_calculate_cleanup_savings(costs, scan_results, optimization) ==
    OrphanedSavings(costs, Get(scan_results, "orphaned_files", <<>>))

\* compression_ratio = 0.3
CompressionSavings(costs, total_size_gb, compressed_size_gb) ==
    SavingsBetween("compression",
                   StorageCost(total_size_gb, costs.standard_storage_cost_per_gb, Int2Rat(3)),
                   StorageCost(compressed_size_gb, costs.standard_storage_cost_per_gb,
                               Int2Rat(3)),
                   total_size_gb,
                   RMul(total_size_gb, Rat(2, 1000)))

CompressionSavingsOf(costs, total_size_gb) ==
    CompressionSavings(costs, total_size_gb,
                       RMul(total_size_gb, RSub(ROne, Rat(3, 10))))

_calculate_compression_savings(costs, scan_results, optimization) ==
    CompressionSavingsOf(costs, Get(scan_results, "total_size_gb", RZero))

SavingsCategories == {"cold_data", "small_files", "replication", "cleanup", "compression"}

\* optimization.get("category", "unknown")
CategoryOf(optimization) == Get(optimization, "category", "unknown")

\* the branch of calculate_optimization_savings taken for the category
SavingsFor(costs, scan_results, optimization, category) ==
    CASE category = "cold_data" ->
            _calculate_cold_data_savings(costs, scan_results, optimization)
      [] category = "small_files" ->
            _calculate_small_file_savings(costs, scan_results, optimization)
      [] category = "replication" ->
            _calculate_replication_savings(costs, scan_results, optimization)
      [] category = "cleanup" ->
            _calculate_cleanup_savings(costs, scan_results, optimization)
      [] category = "compression" ->
            _calculate_compression_savings(costs, scan_results, optimization)

\* the same with an optimization of any other category costed as a compression
calculate_optimization_savings_all(costs, scan_results, optimizations) ==
    Map(optimizations,
        LAMBDA o : SavingsFor(costs, scan_results, o,
                              IF CategoryOf(o) \in SavingsCategories
                              THEN CategoryOf(o) ELSE "compression"))

calculate_optimization_savings(costs, scan_results, optimizations) ==
    Map(Filter(optimizations, LAMBDA o : CategoryOf(o) \in SavingsCategories),
        LAMBDA o : SavingsFor(costs, scan_results, o, CategoryOf(o)))

\* a / b if b > 0 else float('inf')
RatioOrInfinity(a, b) == IF RLt(RZero, b) THEN RDiv(a, b).value ELSE Infinity

\* the dict generate_cost_report returns
CostReport(current_costs, optimization_savings, total_savings, total_implementation_cost, total_annual_savings) ==
    [current_costs |-> current_costs,
     optimization_breakdown |->
        Map(optimization_savings,
            LAMBDA x : [category |-> x.category,
                        monthly_savings |-> x.savings,
                        annual_savings |-> x.annual_savings,
                        savings_percent |-> x.savings_percent,
                        affected_data_gb |-> x.affected_data_gb,
                        implementation_cost |-> x.implementation_cost,
                        payback_months |->
                            RatioOrInfinity(x.implementation_cost, x.savings)]),
     summary |->
        [total_monthly_savings |-> total_savings,
         total_annual_savings |-> total_annual_savings,
         total_implementation_cost |-> total_implementation_cost,
         roi_percent |->
            IF RLt(RZero, total_implementation_cost)
            THEN RMul(RDiv(total_annual_savings, total_implementation_cost).value,
                      Int2Rat(100))
            ELSE Infinity,
         payback_months |-> RatioOrInfinity(total_implementation_cost, total_savings),
         optimized_monthly_cost |-> RSub(current_costs.total_monthly_cost, total_savings),
         cost_reduction_percent |->
            IF RLt(RZero, current_costs.total_monthly_cost)
            THEN RMul(RDiv(total_savings, current_costs.total_monthly_cost).value,
                      Int2Rat(100))
            ELSE RZero]]

CostReportOf(current_costs, optimization_savings) ==
    CostReport(current_costs, optimization_savings,
               RSum(Map(optimization_savings, LAMBDA x : x.savings)),
               RSum(Map(optimization_savings, LAMBDA x : x.implementation_cost)),
               RSum(Map(optimization_savings, LAMBDA x : x.annual_savings)))

generate_cost_report(costs, scan_results, optimizations) ==
    CostReportOf(calculate_current_costs(costs, scan_results),
                 calculate_optimization_savings(costs, scan_results, optimizations))

\* base ** year
RPow(base, year) ==
    LET P[i \in 0..year] == IF i = 0 THEN ROne ELSE RMul(P[i - 1], base)
    IN  P[year]

ProjectionYears == 3
DefaultGrowthRatePercent == 20

\* one iteration of estimate_storage_growth's loop: the dict appended, or the
\* exception of the division by current_size_gb
ProjectionWith(year, projected_size, projected_monthly_cost) ==
    [year |-> year,
     projected_size_gb |-> projected_size,
     projected_monthly_cost |-> projected_monthly_cost,
     projected_annual_cost |-> RMul(projected_monthly_cost, Int2Rat(12))]

ProjectionAfter(year, projected_size, ratio, total_monthly_cost) ==
    IF ratio.raised THEN ratio
    ELSE Return(ProjectionWith(year, projected_size, RMul(ratio.value, total_monthly_cost)))

ProjectionFor(year, projected_size, current_size_gb, total_monthly_cost) ==
    ProjectionAfter(year, projected_size, RDiv(projected_size, current_size_gb),
                    total_monthly_cost)

Projection(year, current_size_gb, growth_rate, total_monthly_cost) ==
    ProjectionFor(year,
                  RMul(current_size_gb, RPow(RAdd(ROne, Rat(growth_rate, 100)), year)),
                  current_size_gb, total_monthly_cost)

\* the dict estimate_storage_growth returns, or the loop's first exception
GrowthReport(current_size_gb, growth_rate, made) ==
    IF \E i \in 1..Len(made) : made[i].raised
    THEN FirstRaised(made)
    ELSE Return([current_size_gb |-> current_size_gb,
                 growth_rate_percent |-> growth_rate,
                 projections |-> Map(made, LAMBDA r : r.value),
                 three_year_total_cost |->
                    RSum(Map(made, LAMBDA r : r.value.projected_annual_cost))])

GrowthReportFor(current_size_gb, growth_rate, total_monthly_cost) ==
    GrowthReport(current_size_gb, growth_rate,
                 [year \in 1..ProjectionYears |->
                    Projection(year, current_size_gb, growth_rate, total_monthly_cost)])

estimate_storage_growth(costs, scan_results, growth_rate) ==
    GrowthReportFor(Get(scan_results, "total_size_gb", RZero), growth_rate,
                    calculate_current_costs(costs, scan_results).total_monthly_cost)

----------------------------------------------------------------------------
(* Inputs: file records as hdfs/client.py's analyze_file_metadata builds   *)
(* them, and records that lack optional fields                             *)

\* datetime.now() of the runs: day 400, in ticks
Now == 400 * TicksPerDay

FileRecord(path, size, replication, access_time, modification_time) ==
    [path |-> path, size |-> size, replication |-> replication,
     access_time |-> access_time, modification_time |-> modification_time]

\* /d/a: exactly 64 MiB, read and written now
FileHot == FileRecord(<<"/", "d", "/", "a">>, 64 * 1024 * 1024, 3, Now, Now)
\* /d/b: 512 KiB, last read one tick before the 180-day cutoff
FileCold == FileRecord(<<"/", "d", "/", "b">>, 512 * 1024, 3,
                       Now - (DefaultColdThresholdDays * TicksPerDay) - 1, Now)
\* /d/c: 1 MiB, five replicas, last read exactly at the 180-day cutoff
FileEdge == FileRecord(<<"/", "d", "/", "c">>, 1024 * 1024, 5,
                       Now - (DefaultColdThresholdDays * TicksPerDay), Now - 1)
\* /tmp/x: empty, never read (access_time 0), written 8 days ago
FileTemp == FileRecord(<<"/", "t", "m", "p", "/", "x">>, 0, 3,
                       0, Now - (8 * TicksPerDay))
\* /e/y: empty, five replicas, read and written now
FileEmpty == FileRecord(<<"/", "e", "/", "y">>, 0, 5, Now, Now)
\* /e.BAK: 512 KiB like /d/b, read one tick ago, written 91 days ago
FileBackup == FileRecord(<<"/", "e", ".", "B", "A", "K">>, 512 * 1024, 3,
                         Now - 1, Now - (91 * TicksPerDay))
\* a record with a path and nothing else
FilePathOnly == [path |-> <<"/", "d", "/", "f">>]
\* a record with a size and nothing else
FileSizeOnly == [size |-> 1024 * 1024]

FileCatalog == {FileHot, FileCold, FileEdge, FileTemp, FileBackup, FilePathOnly, FileSizeOnly}

\* every list of at most n records of the catalogue
FileLists(n) == UNION {[1..k -> FileCatalog] : k \in 0..n}

\* identify_cold_data's threshold: 0 and the default
ColdThresholds == {0, DefaultColdThresholdDays}

\* datetime.now() of a classifier call: day 399 and day 400
ClassifierTimes == {Now - TicksPerDay, Now}

\* what datetime.now() can give after it gave t: the clock does not go back
ClockFrom(t) == {now \in ClassifierTimes : now >= t}

----------------------------------------------------------------------------
(* endpoints/scan.py: the results execute_scan builds                      *)

\* hdfs_client.get_cluster_metrics() of the modelled cluster
ClusterMetrics ==
    [filesystem |-> [capacity_total |-> 1000, capacity_used |-> 500,
                     capacity_remaining |-> 500, files_total |-> 5, blocks_total |-> 5,
                     under_replicated_blocks |-> 0, corrupt_blocks |-> 0],
     rpc |-> [rpc_queue_time_avg |-> 10, rpc_processing_time_avg |-> 5]]

\* execute_scan, "if not all_files": the result returned for a scan without files
NoFilesResults(scan_id, now) ==
    [scan_id |-> scan_id,
     status |-> "completed",
     message |-> <<"No files found in specified paths">>,
     total_files |-> 0,
     total_size_gb |-> RZero,
     cold_data |-> <<>>,
     duplicate_candidates |-> <<>>,
     small_files |-> <<>>,
     orphaned_files |-> <<>>,
     cluster_metrics |-> ClusterMetrics,
     scan_started |-> now,
     scan_completed |-> now]

\* the dict execute_scan builds from the analyses of the files
ScanResults(scan_id, paths, depth, all_files, now, cold_data, duplicates, efficiency, orphaned, directory_analysis, waste_analysis, optimization_priorities, total_size) ==
    IF cold_data.raised THEN cold_data
    ELSE IF optimization_priorities.raised THEN optimization_priorities
    ELSE Return(
        [scan_id |-> scan_id,
         status |-> "completed",
         message |-> <<"Successfully scanned", Len(all_files), "files">>,
         scan_started |-> now,
         scan_completed |-> now,
         scanned_paths |-> paths,
         scan_depth |-> depth,
         total_files |-> Len(all_files),
         total_size_bytes |-> total_size,
         total_size_gb |-> Rat(total_size, GiB),
         cold_data |-> cold_data.value,
         duplicate_candidates |-> duplicates,
         small_files |-> Get(efficiency, "small_files", <<>>),
         empty_files |-> Get(efficiency, "empty_files", <<>>),
         orphaned_files |-> orphaned,
         over_replicated_files |-> Get(efficiency, "inefficient_replication", <<>>),
         efficiency_analysis |->
            [small_files_count |-> Get(efficiency, "small_files_count", 0),
             small_files_percentage |-> Get(efficiency, "small_files_percentage", RZero),
             empty_files_count |-> Get(efficiency, "empty_files_count", 0),
             over_replicated_count |-> Get(efficiency, "over_replicated_count", 0),
             over_replicated_percentage |->
                Get(efficiency, "over_replicated_percentage", RZero),
             efficiency_summary |-> Get(efficiency, "efficiency_summary", EmptyDict)],
         directory_analysis |-> directory_analysis,
         waste_analysis |-> waste_analysis,
         optimization_priorities |-> optimization_priorities.value,
         cluster_metrics |-> ClusterMetrics])

\* execute_scan, "Perform comprehensive analysis" and "Create comprehensive
\* results": the result of a scan with files
CompletedResults(scan_id, paths, depth, all_files, now) ==
    ScanResults(scan_id, paths, depth, all_files, now,
                identify_cold_data(all_files, now, DefaultColdThresholdDays),
                detect_duplicate_candidates(all_files),
                analyze_file_efficiency(all_files),
                identify_orphaned_temp_files(all_files, now),
                analyze_directory_structure(all_files),
                calculate_storage_waste(all_files),
                generate_optimization_priority(all_files, now),
                Sum(Map(all_files, SizeOf)))

\* execute_scan, "except Exception": the result stored for a scan that raised
FailedResults(scan_id, paths, depth, error, now) ==
    [scan_id |-> scan_id,
     status |-> "failed",
     message |-> <<"Scan failed: ", error>>,
     error |-> error,
     scan_started |-> now,
     scan_completed |-> now,
     scanned_paths |-> paths,
     scan_depth |-> depth,
     total_files |-> 0,
     total_size_gb |-> RZero,
     cold_data |-> <<>>,
     duplicate_candidates |-> <<>>,
     small_files |-> <<>>,
     orphaned_files |-> <<>>,
     cluster_metrics |-> EmptyDict]

----------------------------------------------------------------------------
(* hdfs/client.py: the cluster the server scans                            *)

\* the directories a caller asks about
HdfsPaths == {"/d", "/tmp", "/e", "/missing", "/broken"}

\* what client.walk finds below each directory that can be listed
PathFiles ==
    [p \in {"/d", "/tmp", "/e"} |->
        CASE p = "/d" -> <<FileHot, FileCold, FileEdge>>
          [] p = "/tmp" -> <<FileTemp>>
          [] p = "/e" -> <<FileEmpty>>]

\* HDFSClient.check_path_exists: True unless client.status raises
check_path_exists(path) == path \in {"/d", "/tmp", "/e", "/broken"}

\* HDFSClient.scan_directory_batch, its batches concatenated: "/broken" is a
\* directory whose walk fails part way
scan_directory_batch(path, max_depth) ==
    IF path = "/broken" THEN Raise("HdfsError", <<"Failed to list ", path>>)
    ELSE Return(PathFiles[path])

\* scan_hdfs's scan_depth default
DefaultScanDepth == 3

----------------------------------------------------------------------------
(* endpoints/scan.py: execute_scan and the scan store                      *)

\* all_files.extend(files) after one directory's walk
AddBatch(so_far, batch) ==
    IF batch.raised THEN batch ELSE Return(so_far.value \o batch.value)

\* execute_scan's loop over paths: all_files, or the exception of the first
\* directory whose walk fails
CollectFiles(paths, depth) ==
    LET C[i \in 0..Len(paths)] ==
            IF i = 0 THEN Return(<<>>)
            ELSE IF C[i - 1].raised THEN C[i - 1]
            ELSE IF ~check_path_exists(paths[i]) THEN C[i - 1]
            ELSE AddBatch(C[i - 1], scan_directory_batch(paths[i], depth))
    IN  C[Len(paths)]

\* execute_scan, "except Exception": the failed result is stored and the
\* exception goes up
FailedScan(storage, scan_id, paths, depth, e, now) ==
    [outcome |-> e,
     storage |-> Put(storage, scan_id, FailedResults(scan_id, paths, depth, e.arg, now))]

\* execute_scan, "Store results"
StoredScan(storage, scan_id, paths, depth, results, now) ==
    IF results.raised THEN FailedScan(storage, scan_id, paths, depth, results, now)
    ELSE [outcome |-> results, storage |-> Put(storage, scan_id, results.value)]

\* execute_scan after its loop over paths
ScanOf(storage, scan_id, paths, depth, all_files, now) ==
    IF all_files.raised THEN FailedScan(storage, scan_id, paths, depth, all_files, now)
    ELSE IF all_files.value = <<>>
    THEN [outcome |-> Return(NoFilesResults(scan_id, now)), storage |-> storage]
    ELSE StoredScan(storage, scan_id, paths, depth,
                    CompletedResults(scan_id, paths, depth, all_files.value, now), now)

\* execute_scan with uuid4() = scan_id: what it returns or raises, and the
\* scan store it leaves
execute_scan(storage, scan_id, paths, depth, now) ==
    ScanOf(storage, scan_id, paths, depth, CollectFiles(paths, depth), now)

\* a lookup that answers an unknown id with an empty completed scan
get_scan_results_or_empty(storage, scan_id) ==
    Return(Get(storage, scan_id, NoFilesResults(scan_id, Now)))

get_scan_results(storage, scan_id) ==
    IF scan_id \in DOMAIN storage THEN Return(storage[scan_id])
    ELSE Raise("ValueError", <<"Scan results not found for ID: ", scan_id>>)

\* del scan_results_storage[scan_id]
Remove(d, k) == [x \in (DOMAIN d) \ {k} |-> d[x]]

\* a variant that empties the store
delete_every_scan_results(storage, scan_id) ==
    IF scan_id \in DOMAIN storage THEN [deleted |-> TRUE, storage |-> EmptyDict]
    ELSE [deleted |-> FALSE, storage |-> storage]

delete_scan_results(storage, scan_id) ==
    IF scan_id \in DOMAIN storage THEN [deleted |-> TRUE, storage |-> Remove(storage, scan_id)]
    ELSE [deleted |-> FALSE, storage |-> storage]

----------------------------------------------------------------------------
(* llm/client.py: the advisory analysis and its fallback                   *)

ColdRecommendation(cold_data, cold_data_savings) ==
    [title |-> "Cold Data Migration",
     description |-> <<"Move ", Len(cold_data),
                       " cold data files to cheaper storage tier">>,
     category |-> "cold_data",
     impact |-> "high",
     estimated_savings_percent |-> Int2Rat(50),
     estimated_savings_gb |-> cold_data_savings,
     implementation_complexity |-> "medium",
     timeline |-> "1-2 weeks",
     steps |-> <<"Identify cold data files", "Set cold storage policy",
                 "Migrate files to cold tier", "Monitor storage costs">>]

SmallFilesRecommendation(small_files) ==
    [title |-> "Small File Consolidation",
     description |-> <<"Consolidate ", Len(small_files),
                       " small files to reduce metadata overhead">>,
     category |-> "small_files",
     impact |-> "medium",
     estimated_savings_percent |-> Int2Rat(20),
     estimated_savings_gb |-> Rat(Len(small_files), 1000),
     implementation_complexity |-> "high",
     timeline |-> "1 month",
     steps |-> <<"Identify small file directories", "Create consolidation plan",
                 "Merge small files", "Update processing scripts">>]

CleanupRecommendation(orphaned_files) ==
    [title |-> "Orphaned File Cleanup",
     description |-> <<"Remove ", Len(orphaned_files), " orphaned temporary files">>,
     category |-> "cleanup",
     impact |-> "low",
     estimated_savings_percent |-> Int2Rat(10),
     estimated_savings_gb |-> SizeGb(orphaned_files),
     implementation_complexity |-> "low",
     timeline |-> "immediate",
     steps |-> <<"Verify files are safe to delete", "Create cleanup script",
                 "Execute cleanup", "Monitor for issues">>]

\* the dict _generate_fallback_analysis returns
FallbackAnalysis(cold_data, small_files, orphaned_files, cold_data_savings, current_cost, optimized_cost) ==
    [analysis_summary |->
        "Automated analysis identified several optimization opportunities based on scan results.",
     recommendations |->
        (IF Len(cold_data) > 0
         THEN <<ColdRecommendation(cold_data, cold_data_savings)>> ELSE <<>>)
        \o (IF Len(small_files) > 0 THEN <<SmallFilesRecommendation(small_files)>> ELSE <<>>)
        \o (IF Len(orphaned_files) > 0
            THEN <<CleanupRecommendation(orphaned_files)>> ELSE <<>>),
     cost_calculations |->
        [current_monthly_cost |-> current_cost,
         optimized_monthly_cost |-> optimized_cost,
         monthly_savings |-> RSub(current_cost, optimized_cost),
         annual_savings |-> RMul(RSub(current_cost, optimized_cost), Int2Rat(12))],
     risk_assessment |->
        [data_loss_risk |-> "low", performance_impact |-> "positive",
         downtime_required |-> "minimal"],
     monitoring_recommendations |->
        <<"Storage utilization metrics", "File access patterns", "Storage cost tracking">>,
     confidence_score |-> Rat(7, 10),
     source |-> "fallback_analysis"]

\* optimized_cost = current_cost - (cold_data_savings * 0.04 * 2)
FallbackWith(cold_data, small_files, orphaned_files, cold_data_savings, current_cost) ==
    FallbackAnalysis(cold_data, small_files, orphaned_files, cold_data_savings,
                     current_cost,
                     RSub(current_cost,
                          RMul(RMul(cold_data_savings, Rat(4, 100)), Int2Rat(2))))

\* cold_data_savings = cold size in GB * 0.5, current_cost = total_size_gb * 0.04 * 3
FallbackOver(total_size_gb, cold_data, small_files, orphaned_files) ==
    FallbackWith(cold_data, small_files, orphaned_files,
                 RMul(SizeGb(cold_data), Rat(1, 2)),
                 RMul(RMul(total_size_gb, Rat(4, 100)), Int2Rat(3)))

\* a variant that counts the empty files with the orphaned ones
_generate_fallback_analysis_with_empty_files(scan_results) ==
    FallbackOver(Get(scan_results, "total_size_gb", RZero),
                 Get(scan_results, "cold_data", <<>>),
                 Get(scan_results, "small_files", <<>>),
                 Get(scan_results, "orphaned_files", <<>>)
                    \o Get(scan_results, "empty_files", <<>>))

_generate_fallback_analysis(scan_results) ==
    FallbackOver(Get(scan_results, "total_size_gb", RZero),
                 Get(scan_results, "cold_data", <<>>),
                 Get(scan_results, "small_files", <<>>),
                 Get(scan_results, "orphaned_files", <<>>))

\* The text of a reply is a list of pieces: prose without braces, the text
\* of one JSON object ("json", with the object it stands for), or text in
\* braces that is no JSON ("braced").
Prose == [kind |-> "prose"]
Json(object) == [kind |-> "json", object |-> object]
Braced == [kind |-> "braced"]

required_fields == <<"analysis_summary", "recommendations", "cost_calculations">>

\* the greatest element of a nonempty set of integers
Greatest(S) == CHOOSE i \in S : \A j \in S : j <= i

\* raise ValueError(f"Invalid LLM response format: {e}")
InvalidResponse(why) == Raise("ValueError", <<"Invalid LLM response format: ">> \o why)

\* "Validate required fields"
CheckedFields(analysis, missing) ==
    IF missing # {}
    THEN InvalidResponse(<<"Missing required field: ", required_fields[Least(missing)]>>)
    ELSE Return(analysis)

Validated(analysis) ==
    CheckedFields(analysis,
                  {i \in 1..Len(required_fields) : required_fields[i] \notin DOMAIN analysis})

\* json.loads(llm_response[start:end])
ParsedBetween(llm_response, start, end) ==
    IF start # end \/ llm_response[start].kind # "json"
    THEN InvalidResponse(<<"JSONDecodeError">>)
    ELSE Validated(llm_response[start].object)

\* llm_response.find("{") and llm_response.rfind("}")
ParsedWithin(llm_response, in_braces) ==
    IF in_braces = {} THEN InvalidResponse(<<"No JSON found in response">>)
    ELSE ParsedBetween(llm_response, Least(in_braces), Greatest(in_braces))

_parse_cost_analysis(llm_response) ==
    ParsedWithin(llm_response,
                 {i \in 1..Len(llm_response) : llm_response[i].kind # "prose"})

\* the try block of analyze_hdfs_cost_optimization, resumed with what
\* _make_llm_request gave: the text of the reply, or the exception of the request
RequestedAnalysis(reply) ==
    IF reply.raised THEN reply ELSE _parse_cost_analysis(reply.value)

\* the except block: "Return fallback analysis"
AnalysisOrFallback(scan_results, analysis) ==
    IF analysis.raised THEN Return(_generate_fallback_analysis(scan_results))
    ELSE analysis

\* the same without the except block: the exception goes up to the caller
analyze_without_fallback(scan_results, reply) == RequestedAnalysis(reply)

analyze_hdfs_cost_optimization(scan_results, reply) ==
    AnalysisOrFallback(scan_results, RequestedAnalysis(reply))

----------------------------------------------------------------------------
(* endpoints/optimize.py: the plan built from an analysis                  *)

None == [none |-> TRUE]

\* v * factor for a value of a parsed reply: a number, or text (which
\* Python refuses to multiply by a float)
Times(v, factor) ==
    IF "n" \in DOMAIN v THEN Return(RMul(v, factor))
    ELSE Raise("TypeError", <<"can't multiply sequence by non-int of type 'float'">>)

ColdMigrationAgeDays == 90
MinFilesToConsolidate == 10

\* the entry of files_to_migrate for a cold file
FileToMigrate(file_info) ==
    [path |-> Get(file_info, "path", None),
     size |-> SizeOf(file_info),
     size_gb |-> Rat(SizeOf(file_info), GiB),
     days_since_access |-> Get(file_info, "days_since_access", RZero),
     current_storage_policy |-> "HOT"]

\* the dict _create_cold_data_optimization returns
ColdDataOptimization(recommendation, files_to_migrate, savings) ==
    IF files_to_migrate = <<>> THEN Return(None)
    ELSE IF savings.raised THEN savings
    ELSE Return(
        [category |-> "cold_data",
         title |-> Get(recommendation, "title", "Cold Data Migration"),
         description |-> Get(recommendation, "description",
                             "Migrate cold data to cheaper storage"),
         files |-> files_to_migrate,
         estimated_monthly_savings |-> savings.value,
         affected_data_gb |-> RSum(Map(files_to_migrate, LAMBDA f : f.size_gb)),
         implementation_complexity |->
            Get(recommendation, "implementation_complexity", "medium"),
         timeline |-> Get(recommendation, "timeline", "1-2 weeks")])

_create_cold_data_optimization(scan_results, recommendation) ==
    ColdDataOptimization(
        recommendation,
        Map(Filter(Get(scan_results, "cold_data", <<>>),
                   LAMBDA f : RLt(Int2Rat(ColdMigrationAgeDays),
                                  Get(f, "days_since_access", RZero))),
            FileToMigrate),
        Times(Get(recommendation, "estimated_savings_gb", RZero), Rat(3, 100)))

\* the entry of a directory's group for a small file
SmallFileEntry(file_info) ==
    [path |-> PathOf(file_info),
     size |-> SizeOf(file_info),
     size_gb |-> Rat(SizeOf(file_info), GiB)]

\* the entry of directories_to_consolidate for a directory and its group
DirectoryToConsolidate(directory, group) ==
    [path |-> directory,
     small_files |-> group,
     file_count |-> Len(group),
     total_size_gb |-> RSum(Map(group, LAMBDA f : f.size_gb))]

\* directory_groups[directory]
DirectoryGroup(small_files, directory) ==
    Map(Filter(small_files, LAMBDA f : ParentOf(PathOf(f)) = directory), SmallFileEntry)

\* the dict _create_small_files_optimization returns
SmallFilesOptimization(recommendation, small_files, directories_to_consolidate) ==
    IF directories_to_consolidate = <<>> THEN Return(None)
    ELSE Return(
        [category |-> "small_files",
         title |-> Get(recommendation, "title", "Small Files Consolidation"),
         description |-> Get(recommendation, "description",
                             "Consolidate small files to reduce overhead"),
         directories |-> directories_to_consolidate,
         estimated_monthly_savings |-> Rat(Len(small_files), 1000),
         affected_data_gb |->
            RSum(Map(directories_to_consolidate, LAMBDA d : d.total_size_gb)),
         implementation_complexity |->
            Get(recommendation, "implementation_complexity", "high"),
         timeline |-> Get(recommendation, "timeline", "1 month")])

\* the same with directories of more than 10 small files only
SmallFilesOptimizationOfMoreThanTen(recommendation, small_files) ==
    SmallFilesOptimization(
        recommendation, small_files,
        Map(Filter(KeysInOrder(small_files, LAMBDA f : ParentOf(PathOf(f))),
                   LAMBDA d : Len(DirectoryGroup(small_files, d)) > MinFilesToConsolidate),
            LAMBDA d : DirectoryToConsolidate(d, DirectoryGroup(small_files, d))))

SmallFilesOptimizationOf(recommendation, small_files) ==
    SmallFilesOptimization(
        recommendation, small_files,
        Map(Filter(KeysInOrder(small_files, LAMBDA f : ParentOf(PathOf(f))),
                   LAMBDA d : Len(DirectoryGroup(small_files, d)) >= MinFilesToConsolidate),
            LAMBDA d : DirectoryToConsolidate(d, DirectoryGroup(small_files, d))))

_create_small_files_optimization(scan_results, recommendation) ==
    SmallFilesOptimizationOf(recommendation, Get(scan_results, "small_files", <<>>))

\* the entry of files_to_optimize for an over-replicated file
FileToOptimize(file_info) ==
    [path |-> Get(file_info, "path", None),
     size |-> SizeOf(file_info),
     size_gb |-> Rat(SizeOf(file_info), GiB),
     current_replication |-> Get(file_info, "current_replication", 3),
     suggested_replication |-> Get(file_info, "suggested_replication", 3)]

\* the dict _create_replication_optimization returns
ReplicationOptimization(recommendation, files_to_optimize, savings) ==
    IF files_to_optimize = <<>> THEN Return(None)
    ELSE IF savings.raised THEN savings
    ELSE Return(
        [category |-> "replication",
         title |-> Get(recommendation, "title", "Replication Optimization"),
         description |-> Get(recommendation, "description",
                             "Optimize replication factors"),
         files |-> files_to_optimize,
         estimated_monthly_savings |-> savings.value,
         affected_data_gb |-> RSum(Map(files_to_optimize, LAMBDA f : f.size_gb)),
         implementation_complexity |->
            Get(recommendation, "implementation_complexity", "low"),
         timeline |-> Get(recommendation, "timeline", "immediate")])

\* the same keeping a recommendation without over-replicated files as an
\* action without effect
_create_replication_optimization_kept(scan_results, recommendation) ==
    Return([category |-> "replication",
            title |-> Get(recommendation, "title", "Replication Optimization"),
            description |-> Get(recommendation, "description",
                                "Optimize replication factors"),
            files |-> Map(Get(scan_results, "over_replicated_files", <<>>), FileToOptimize),
            estimated_monthly_savings |-> RZero,
            affected_data_gb |-> RZero,
            implementation_complexity |->
                Get(recommendation, "implementation_complexity", "low"),
            timeline |-> Get(recommendation, "timeline", "immediate")])

_create_replication_optimization(scan_results, recommendation) ==
    ReplicationOptimization(
        recommendation,
        Map(Get(scan_results, "over_replicated_files", <<>>), FileToOptimize),
        Times(Get(recommendation, "estimated_savings_gb", RZero), Rat(4, 100)))

\* the entries of files_to_delete for an orphaned file and for an empty file
OrphanedToDelete(file_info) ==
    [path |-> Get(file_info, "path", None),
     size |-> SizeOf(file_info),
     size_gb |-> Rat(SizeOf(file_info), GiB),
     type |-> "orphaned",
     age_days |-> Get(file_info, "age_days", RZero),
     cleanup_priority |-> Get(file_info, "cleanup_priority", "medium")]

EmptyToDelete(file_info) ==
    [path |-> Get(file_info, "path", None),
     size |-> SizeOf(file_info),
     size_gb |-> RZero,
     type |-> "empty",
     cleanup_priority |-> "low"]

\* the dict _create_cleanup_optimization returns
CleanupOptimization(recommendation, files_to_delete, total_gb) ==
    IF files_to_delete = <<>> THEN Return(None)
    ELSE Return(
        [category |-> "cleanup",
         title |-> Get(recommendation, "title", "File Cleanup"),
         description |-> Get(recommendation, "description", "Remove unnecessary files"),
         files |-> files_to_delete,
         estimated_monthly_savings |-> RMul(RMul(total_gb, Rat(4, 100)), Int2Rat(3)),
         affected_data_gb |-> total_gb,
         implementation_complexity |->
            Get(recommendation, "implementation_complexity", "low"),
         timeline |-> Get(recommendation, "timeline", "immediate")])

CleanupOptimizationOf(recommendation, files_to_delete) ==
    CleanupOptimization(recommendation, files_to_delete,
                        RSum(Map(files_to_delete, LAMBDA f : f.size_gb)))

_create_cleanup_optimization(scan_results, recommendation) ==
    CleanupOptimizationOf(
        recommendation,
        Map(Get(scan_results, "orphaned_files", <<>>), OrphanedToDelete)
        \o Map(Get(scan_results, "empty_files", <<>>), EmptyToDelete))

\* the dict _create_generic_optimization returns
GenericOptimization(recommendation, savings) ==
    IF savings.raised THEN savings
    ELSE Return(
        [category |-> Get(recommendation, "category", "generic"),
         title |-> Get(recommendation, "title", "Generic Optimization"),
         description |-> Get(recommendation, "description", <<>>),
         estimated_monthly_savings |-> savings.value,
         affected_data_gb |-> Get(recommendation, "estimated_savings_gb", RZero),
         implementation_complexity |->
            Get(recommendation, "implementation_complexity", "medium"),
         timeline |-> Get(recommendation, "timeline", "1-2 weeks"),
         steps |-> Get(recommendation, "steps", <<>>)])

_create_generic_optimization(scan_results, recommendation) ==
    GenericOptimization(
        recommendation,
        Times(Get(recommendation, "estimated_savings_gb", RZero), Rat(4, 100)))

complexity_weights == [low |-> 1, medium |-> 2, high |-> 3]

TimeFor(total_complexity) ==
    IF total_complexity <= 3 THEN "1-2 weeks"
    ELSE IF total_complexity <= 6 THEN "1 month"
    ELSE "2-3 months"

_estimate_implementation_time(optimizations) ==
    TimeFor(Sum(Map(optimizations,
                    LAMBDA o : Get(complexity_weights,
                                   Get(o, "implementation_complexity", "medium"), 2))))

\* the branch of _create_optimization_plan's loop taken for the category
OptimizationFor(scan_results, recommendation, category) ==
    CASE category = "cold_data" ->
            _create_cold_data_optimization(scan_results, recommendation)
      [] category = "small_files" ->
            _create_small_files_optimization(scan_results, recommendation)
      [] category = "replication" ->
            _create_replication_optimization(scan_results, recommendation)
      [] category = "cleanup" ->
            _create_cleanup_optimization(scan_results, recommendation)
      [] OTHER -> _create_generic_optimization(scan_results, recommendation)

\* the dict _create_optimization_plan returns
OptimizationPlan(plan_id, optimizations, total_monthly_savings, now) ==
    [plan_id |-> plan_id,
     optimizations |-> optimizations,
     total_monthly_savings |-> total_monthly_savings,
     total_annual_savings |-> RMul(total_monthly_savings, Int2Rat(12)),
     affected_data_gb |->
        RSum(Map(optimizations, LAMBDA o : Get(o, "affected_data_gb", RZero))),
     created_at |-> now,
     estimated_implementation_time |-> _estimate_implementation_time(optimizations)]

OptimizationPlanOf(plan_id, optimizations, now) ==
    OptimizationPlan(
        plan_id, optimizations,
        RSum(Map(optimizations, LAMBDA o : Get(o, "estimated_monthly_savings", RZero))),
        now)

\* the loop's outcome: its first exception, or the plan of the optimizations
\* that are not None
PlanFrom(plan_id, made, now) ==
    IF \E i \in 1..Len(made) : made[i].raised
    THEN FirstRaised(made)
    ELSE Return(OptimizationPlanOf(
                    plan_id,
                    Map(Filter(made, LAMBDA m : m.value # None), LAMBDA m : m.value),
                    now))

\* _create_optimization_plan with uuid4() = plan_id: the plan, or the
\* exception of the first recommendation that cannot be turned into one
_create_optimization_plan(plan_id, scan_results, llm_analysis, now) ==
    PlanFrom(plan_id,
             Map(Get(llm_analysis, "recommendations", <<>>),
                 LAMBDA r : OptimizationFor(scan_results, r, Get(r, "category", "unknown"))),
             now)

RoiMonths(total_savings, total_implementation_cost) ==
    IF RLe(total_savings, RZero) THEN Infinity
    ELSE RDiv(total_implementation_cost, total_savings).value

_calculate_roi_months(optimization_savings) ==
    RoiMonths(RSum(Map(optimization_savings, LAMBDA s : s.savings)),
              RSum(Map(optimization_savings, LAMBDA s : s.implementation_cost)))

\* the dict generate_recommendations stores and returns
OptimizationRecord(optimization_id, scan_id, current_costs, llm_analysis, optimization_plan, optimization_savings, cost_report, now) ==
    [optimization_id |-> optimization_id,
     scan_id |-> scan_id,
     status |-> "completed",
     created_at |-> now,
     llm_analysis |-> llm_analysis,
     current_costs |-> current_costs,
     optimization_plan |-> optimization_plan,
     optimization_savings |->
        Map(optimization_savings,
            LAMBDA s : [category |-> s.category,
                        current_cost |-> s.current_cost,
                        optimized_cost |-> s.optimized_cost,
                        monthly_savings |-> s.savings,
                        annual_savings |-> s.annual_savings,
                        savings_percent |-> s.savings_percent,
                        affected_data_gb |-> s.affected_data_gb,
                        implementation_cost |-> s.implementation_cost]),
     cost_report |-> cost_report,
     summary |->
        [total_monthly_savings |->
            RSum(Map(optimization_savings, LAMBDA s : s.savings)),
         total_annual_savings |->
            RSum(Map(optimization_savings, LAMBDA s : s.annual_savings)),
         total_implementation_cost |->
            RSum(Map(optimization_savings, LAMBDA s : s.implementation_cost)),
         roi_months |-> _calculate_roi_months(optimization_savings),
         affected_data_gb |->
            RSum(Map(optimization_savings, LAMBDA s : s.affected_data_gb)),
         \* list(set(...)): the order is the set's
         optimization_categories |->
            {optimization_savings[i].category : i \in 1..Len(optimization_savings)}]]

\* "Calculate detailed savings" and "Generate cost report"
ResultsOfPlan(optimization_id, scan_id, scan_results, current_costs, llm_analysis, optimization_plan, optimizations, now) ==
    OptimizationRecord(optimization_id, scan_id, current_costs, llm_analysis,
                       optimization_plan,
                       calculate_optimization_savings(StorageCosts, scan_results,
                                                      optimizations),
                       generate_cost_report(StorageCosts, scan_results, optimizations),
                       now)

ResultsAfterPlan(optimization_id, scan_id, scan_results, current_costs, llm_analysis, optimization_plan, now) ==
    IF optimization_plan.raised THEN optimization_plan
    ELSE Return(ResultsOfPlan(optimization_id, scan_id, scan_results, current_costs,
                              llm_analysis, optimization_plan.value,
                              Get(optimization_plan.value, "optimizations", <<>>), now))

\* generate_recommendations after the await: the record it stores and
\* returns, or the exception it handles and re-raises
OptimizationResults(optimization_id, plan_id, scan_id, scan_results, current_costs, llm_analysis, now) ==
    ResultsAfterPlan(optimization_id, scan_id, scan_results, current_costs, llm_analysis,
                     _create_optimization_plan(plan_id, scan_results, llm_analysis, now),
                     now)

\* generate_recommendations, "except Exception": the record stored
FailedOptimization(optimization_id, scan_id, error, now) ==
    [optimization_id |-> optimization_id,
     scan_id |-> scan_id,
     status |-> "failed",
     error |-> error,
     created_at |-> now]

----------------------------------------------------------------------------
(* endpoints/generate_script.py: the plan store and the script             *)

\* a store with one slot for the plan made last
store_latest_plan(storage, plan_id, plan, now) ==
    Put(storage, "latest", [plan |-> plan, created_at |-> now, status |-> "ready"])

\* a store that files the plan under the plan's own id
store_plan_by_its_id(storage, plan_id, plan, now) ==
    Put(storage, plan.plan_id, [plan |-> plan, created_at |-> now, status |-> "ready"])

\* HDFSScriptGenerator.store_optimization_plan
store_optimization_plan(storage, plan_id, plan, now) ==
    Put(storage, plan_id, [plan |-> plan, created_at |-> now, status |-> "ready"])

\* a lookup that answers an unknown id with an empty plan
get_optimization_plan_or_empty(storage, plan_id) ==
    Return(IF plan_id \in DOMAIN storage THEN storage[plan_id].plan ELSE EmptyDict)

\* HDFSScriptGenerator.get_optimization_plan
get_optimization_plan(storage, plan_id) ==
    IF plan_id \in DOMAIN storage THEN Return(storage[plan_id].plan)
    ELSE Raise("ValueError", <<"Optimization plan not found: ", plan_id>>)

\* the text of a path kept as a tuple of characters
Str(chars) ==
    LET S[i \in 0..Len(chars)] == IF i = 0 THEN "" ELSE S[i - 1] \o chars[i]
    IN  S[Len(chars)]

\* a number as the template prints it
FormatNumber(r) == ToString(r.n) \o "/" \o ToString(r.d)

\* the lines the template renders for one file of one optimization
FileLines(category, file) ==
    CASE category = "cold_data" ->
            <<"hdfs storagepolicies -setStoragePolicy -path ", Str(file.path), " -policy COLD",
              "hdfs dfs -setrep 1 ", Str(file.path)>>
      [] category = "replication" ->
            <<"hdfs dfs -setrep ", ToString(file.suggested_replication), " ", Str(file.path)>>
      [] category = "cleanup" ->
            (IF Get(file, "cleanup_priority", "low") = "critical"
             THEN <<"hdfs dfs -cp ", Str(file.path), " $BACKUP_DIR">> ELSE <<>>)
            \o <<"hdfs dfs -rm -skipTrash ", Str(file.path)>>
      [] category = "compression" ->
            <<"hdfs dfs -get ", Str(file.path), " - | gzip", "hdfs dfs -rm ", Str(file.path)>>
      [] OTHER -> <<>>

\* the lines the template renders for one optimization
LinesOf(category, files, directories) ==
    IF category = "small_files"
    THEN Flatten(Map(directories,
                     LAMBDA d : <<"hdfs dfs -getmerge ", Str(d.path)>>
                                \o Flatten(Map(d.small_files,
                                               LAMBDA f : <<"hdfs dfs -rm ",
                                                            Str(f.path)>>))))
    ELSE Flatten(Map(files, LAMBDA f : FileLines(category, f)))

OptimizationLines(optimization) ==
    LinesOf(Get(optimization, "category", ""),
            Get(optimization, "files", <<>>),
            Get(optimization, "directories", <<>>))

\* the cleanup section prints file.age_days|round(1) for every file; the
\* entries built from empty files carry no age_days
LacksAge(optimization) ==
    /\ Get(optimization, "category", "") = "cleanup"
    /\ \E j \in 1..Len(Get(optimization, "files", <<>>)) :
            "age_days" \notin DOMAIN optimization.files[j]

PrintsMissingAge(optimization_plan) ==
    \E i \in 1..Len(Get(optimization_plan, "optimizations", <<>>)) :
        LacksAge(optimization_plan.optimizations[i])

\* HDFSScriptGenerator.generate_optimization_script: the rendered script,
\* or the template engine's exception where it refuses a missing age_days
generate_optimization_script(optimization_plan, engine_refuses) ==
    IF engine_refuses /\ PrintsMissingAge(optimization_plan)
    THEN Raise("UndefinedError", <<"'dict object' has no attribute 'age_days'">>)
    ELSE Return(
        <<"#!/bin/bash", "# Optimization Plan ID: ",
          Get(optimization_plan, "plan_id", "unknown"),
          "# Total Estimated Savings: $",
          FormatNumber(Get(optimization_plan, "total_monthly_savings", RZero))>>
        \o Flatten(Map(Get(optimization_plan, "optimizations", <<>>), OptimizationLines))
        \o <<"HDFS COST OPTIMIZATION COMPLETED", "Affected Data: ",
             FormatNumber(Get(optimization_plan, "affected_data_gb", RZero)), "GB">>)

\* create_optimization_script, "except Exception": the error script
ScriptOrFailure(script) ==
    IF script.raised
    THEN <<"#!/bin/bash\necho '", "Script generation failed", ": ">>
         \o script.arg \o <<"'\nexit 1">>
    ELSE script.value

ScriptOfPlan(optimization_plan, engine_refuses) ==
    IF optimization_plan.raised THEN optimization_plan
    ELSE generate_optimization_script(optimization_plan.value, engine_refuses)

create_optimization_script(storage, optimization_id, engine_refuses) ==
    ScriptOrFailure(ScriptOfPlan(get_optimization_plan(storage, optimization_id),
                                 engine_refuses))

----------------------------------------------------------------------------
(* endpoints/summary.py: generate_summary                                  *)

\* the entries of the dict _analyze_optimization_opportunities returns
ColdDataMigration(cold_data, cold_data_size_gb) ==
    [file_count |-> Len(cold_data),
     size_gb |-> cold_data_size_gb,
     potential_monthly_savings |-> RMul(cold_data_size_gb, Rat(3, 100)),
     priority |-> IF RLt(Int2Rat(100), cold_data_size_gb) THEN "high" ELSE "medium"]

SmallFileConsolidation(small_files) ==
    [file_count |-> Len(small_files),
     size_gb |-> SizeGb(small_files),
     potential_monthly_savings |-> Rat(Len(small_files), 1000),
     priority |-> IF Len(small_files) > 10000 THEN "high" ELSE "medium"]

FileCleanup(orphaned_files, empty_files, orphaned_size_gb) ==
    [orphaned_files |-> Len(orphaned_files),
     empty_files |-> Len(empty_files),
     size_gb |-> orphaned_size_gb,
     potential_monthly_savings |-> RMul(RMul(orphaned_size_gb, Rat(4, 100)), Int2Rat(3)),
     priority |-> "medium"]

LowPriorityOpportunity(files, size_gb, saving_per_gb) ==
    [file_count |-> Len(files),
     size_gb |-> size_gb,
     potential_monthly_savings |-> RMul(size_gb, saving_per_gb),
     priority |-> "low"]

Opportunities(cold_data, small_files, empty_files, orphaned_files, over_replicated, duplicates) ==
    [cold_data_migration |-> ColdDataMigration(cold_data, SizeGb(cold_data)),
     small_file_consolidation |-> SmallFileConsolidation(small_files),
     file_cleanup |-> FileCleanup(orphaned_files, empty_files, SizeGb(orphaned_files)),
     replication_optimization |->
        LowPriorityOpportunity(over_replicated, SizeGb(over_replicated), Rat(4, 100)),
     duplicate_removal |->
        LowPriorityOpportunity(duplicates, SizeGb(duplicates), Rat(2, 100))]

_analyze_optimization_opportunities(scan_results) ==
    Opportunities(Get(scan_results, "cold_data", <<>>),
                  Get(scan_results, "small_files", <<>>),
                  Get(scan_results, "empty_files", <<>>),
                  Get(scan_results, "orphaned_files", <<>>),
                  Get(scan_results, "over_replicated_files", <<>>),
                  Get(scan_results, "duplicate_candidates", <<>>))

RMax(a, b) == IF RLt(a, b) THEN b ELSE a

_get_file_size_recommendation(avg_file_size_mb) ==
    IF RLt(avg_file_size_mb, ROne) THEN "Consider consolidating small files"
    ELSE IF RLt(avg_file_size_mb, Int2Rat(64)) THEN "File sizes are below optimal range"
    ELSE IF RLe(avg_file_size_mb, Int2Rat(1024)) THEN "File sizes are in optimal range"
    ELSE "Consider splitting large files"

\* the dict _calculate_efficiency_metrics returns
EfficiencyMetrics(efficiency_analysis, avg_file_size_mb, small_files_percentage, over_replicated_percentage) ==
    [average_file_size_mb |-> avg_file_size_mb,
     efficiency_score |->
        RMax(RZero, RSub(RSub(Int2Rat(100), RMin(small_files_percentage, Int2Rat(50))),
                         RMin(over_replicated_percentage, Int2Rat(30)))),
     small_files_percentage |-> small_files_percentage,
     over_replicated_percentage |-> over_replicated_percentage,
     empty_files_count |-> Get(efficiency_analysis, "empty_files_count", 0),
     storage_utilization |->
        [optimal_range |-> "64MB - 1GB per file",
         current_average |-> FormatNumber(avg_file_size_mb) \o "MB",
         recommendation |-> _get_file_size_recommendation(avg_file_size_mb)]]

\* (total_size_gb * 1024) / total_files if total_files > 0 else 0
AverageFileSizeMb(total_size_gb, total_files) ==
    IF total_files > 0
    THEN RDiv(RMul(total_size_gb, Int2Rat(1024)), Int2Rat(total_files)).value
    ELSE RZero

EfficiencyMetricsOf(total_files, total_size_gb, efficiency_analysis) ==
    EfficiencyMetrics(efficiency_analysis,
                      AverageFileSizeMb(total_size_gb, total_files),
                      Get(efficiency_analysis, "small_files_percentage", RZero),
                      Get(efficiency_analysis, "over_replicated_percentage", RZero))

_calculate_efficiency_metrics(scan_results) ==
    EfficiencyMetricsOf(Get(scan_results, "total_files", 0),
                        Get(scan_results, "total_size_gb", RZero),
                        Get(scan_results, "efficiency_analysis", EmptyDict))

\* the dict _analyze_cluster_health returns
ClusterHealth(filesystem_metrics, capacity_total, capacity_used, capacity_remaining, utilization_percent) ==
    [health_status |->
        IF RLt(utilization_percent, Int2Rat(70)) THEN "healthy"
        ELSE IF RLt(utilization_percent, Int2Rat(85)) THEN "warning"
        ELSE "critical",
     capacity_utilization_percent |-> utilization_percent,
     capacity_total_gb |-> Rat(capacity_total, GiB),
     capacity_used_gb |-> Rat(capacity_used, GiB),
     capacity_remaining_gb |-> Rat(capacity_remaining, GiB),
     under_replicated_blocks |-> Get(filesystem_metrics, "under_replicated_blocks", 0),
     corrupt_blocks |-> Get(filesystem_metrics, "corrupt_blocks", 0),
     files_total |-> Get(filesystem_metrics, "files_total", 0),
     blocks_total |-> Get(filesystem_metrics, "blocks_total", 0)]

\* (capacity_used / capacity_total) * 100 if capacity_total > 0 else 0
Utilization(capacity_used, capacity_total) ==
    IF capacity_total > 0 THEN RMul(Rat(capacity_used, capacity_total), Int2Rat(100))
    ELSE RZero

ClusterHealthWith(filesystem_metrics, capacity_total, capacity_used, capacity_remaining) ==
    ClusterHealth(filesystem_metrics, capacity_total, capacity_used, capacity_remaining,
                  Utilization(capacity_used, capacity_total))

ClusterHealthOf(filesystem_metrics) ==
    ClusterHealthWith(filesystem_metrics,
                      Get(filesystem_metrics, "capacity_total", 0),
                      Get(filesystem_metrics, "capacity_used", 0),
                      Get(filesystem_metrics, "capacity_remaining", 0))

_analyze_cluster_health(scan_results) ==
    ClusterHealthOf(Get(Get(scan_results, "cluster_metrics", EmptyDict),
                        "filesystem", EmptyDict))

severity_scores == [critical |-> 10, high |-> 5, medium |-> 2, low |-> 1]

Risk(type, severity, recommendation) ==
    [type |-> type, severity |-> severity, recommendation |-> recommendation]

\* the risks _assess_risks appends, in the order of its tests
RisksOf(cluster_health, efficiency_metrics) ==
    (IF RLt(Int2Rat(85), cluster_health.capacity_utilization_percent)
     THEN <<Risk("high_utilization", "critical",
                 "Immediate cleanup or capacity expansion required")>>
     ELSE <<>>)
    \o (IF RLt(Int2Rat(50), efficiency_metrics.small_files_percentage)
        THEN <<Risk("small_files", "high", "Implement file consolidation strategy")>>
        ELSE <<>>)
    \o (IF cluster_health.corrupt_blocks > 0
        THEN <<Risk("data_corruption", "critical", "Immediate data recovery required")>>
        ELSE <<>>)
    \o (IF cluster_health.under_replicated_blocks > 0
        THEN <<Risk("under_replication", "medium",
                    "Check cluster health and replication settings")>>
        ELSE <<>>)

\* the dict _assess_risks returns
RiskAssessment(risks, risk_score) ==
    [overall_risk_score |-> risk_score,
     risk_level |-> IF risk_score >= 10 THEN "critical"
                    ELSE IF risk_score >= 5 THEN "high"
                    ELSE IF risk_score >= 2 THEN "medium" ELSE "low",
     risks |-> risks,
     recommendations |-> Map(risks, LAMBDA r : r.recommendation)]

RiskAssessmentOf(risks) ==
    RiskAssessment(risks, Sum(Map(risks, LAMBDA r : severity_scores[r.severity])))

_assess_risks(scan_results) ==
    RiskAssessmentOf(RisksOf(_analyze_cluster_health(scan_results),
                             _calculate_efficiency_metrics(scan_results)))

Recommendation(priority, action, savings, timeline) ==
    [priority |-> priority, action |-> action,
     estimated_monthly_savings |-> savings, timeline |-> timeline]

\* the recommendations _generate_recommendations_summary appends, in the
\* order of its tests
RecommendationsOf(opportunities) ==
    (IF RLt(Int2Rat(100), opportunities.cold_data_migration.potential_monthly_savings)
     THEN <<Recommendation(1, "Cold Data Migration",
                opportunities.cold_data_migration.potential_monthly_savings,
                "1-2 weeks")>>
     ELSE <<>>)
    \o (IF opportunities.small_file_consolidation.file_count > 5000
        THEN <<Recommendation(2, "Small File Consolidation",
                   opportunities.small_file_consolidation.potential_monthly_savings,
                   "2-4 weeks")>>
        ELSE <<>>)
    \o (IF RLt(Int2Rat(50), opportunities.file_cleanup.potential_monthly_savings)
        THEN <<Recommendation(3, "File Cleanup",
                   opportunities.file_cleanup.potential_monthly_savings,
                   "Immediate")>>
        ELSE <<>>)

\* the dict _generate_recommendations_summary returns
RecommendationsSummary(recommendations, total) ==
    [total_recommendations |-> Len(recommendations),
     recommendations |-> recommendations,
     estimated_total_monthly_savings |-> total,
     estimated_total_annual_savings |-> RMul(total, Int2Rat(12))]

RecommendationsSummaryOf(recommendations) ==
    RecommendationsSummary(
        recommendations,
        RSum(Map(recommendations, LAMBDA r : r.estimated_monthly_savings)))

_generate_recommendations_summary(scan_results) ==
    RecommendationsSummaryOf(
        RecommendationsOf(_analyze_optimization_opportunities(scan_results)))

\* monthly_savings, by category
SavingsByCategory(opportunities) ==
    [cold_data |-> opportunities.cold_data_migration.potential_monthly_savings,
     small_files |-> opportunities.small_file_consolidation.potential_monthly_savings,
     cleanup |-> opportunities.file_cleanup.potential_monthly_savings,
     replication |-> opportunities.replication_optimization.potential_monthly_savings,
     duplicates |-> opportunities.duplicate_removal.potential_monthly_savings]

\* the dict _calculate_projected_savings returns
ProjectedSavings(current_monthly_cost, monthly_savings, total_monthly_savings, savings_percentage) ==
    [current_monthly_cost |-> current_monthly_cost,
     projected_monthly_savings |-> total_monthly_savings,
     projected_annual_savings |-> RMul(total_monthly_savings, Int2Rat(12)),
     savings_percentage |-> savings_percentage,
     optimized_monthly_cost |-> RSub(current_monthly_cost, total_monthly_savings),
     savings_by_category |-> monthly_savings,
     payback_period |-> "immediate",
     confidence_level |-> IF RLt(Int2Rat(20), savings_percentage) THEN "high"
                          ELSE IF RLt(Int2Rat(10), savings_percentage) THEN "medium"
                          ELSE "low"]

ProjectedSavingsWith(current_monthly_cost, monthly_savings, total_monthly_savings) ==
    ProjectedSavings(current_monthly_cost, monthly_savings, total_monthly_savings,
                     SavingsPercent(total_monthly_savings, current_monthly_cost))

\* total_monthly_savings = sum(monthly_savings.values())
ProjectedSavingsOf(current_monthly_cost, monthly_savings) ==
    ProjectedSavingsWith(
        current_monthly_cost, monthly_savings,
        RAdd(RAdd(RAdd(monthly_savings.cold_data, monthly_savings.small_files),
                  RAdd(monthly_savings.cleanup, monthly_savings.replication)),
             monthly_savings.duplicates))

_calculate_projected_savings(scan_results) ==
    ProjectedSavingsOf(
        calculate_current_costs(StorageCosts, scan_results).total_monthly_cost,
        SavingsByCategory(_analyze_optimization_opportunities(scan_results)))

\* generate_summary, "except Exception": the dict returned
FailedSummary(scan_id, error, now) ==
    [scan_id |-> scan_id, status |-> "failed", error |-> error, generated_at |-> now]

\* the dict generate_summary returns for a completed scan
Summary(scan_id, scan_results, now) ==
    [scan_id |-> scan_id,
     generated_at |-> now,
     status |-> "completed",
     scan_info |->
        [scan_completed |-> Get(scan_results, "scan_completed", None),
         scanned_paths |-> Get(scan_results, "scanned_paths", <<>>),
         scan_depth |-> Get(scan_results, "scan_depth", 0),
         total_files |-> Get(scan_results, "total_files", 0),
         total_size_gb |-> Get(scan_results, "total_size_gb", RZero),
         total_size_tb |->
            RMul(Get(scan_results, "total_size_gb", RZero), Rat(1, 1024))],
     current_costs |-> calculate_current_costs(StorageCosts, scan_results),
     optimization_opportunities |-> _analyze_optimization_opportunities(scan_results),
     efficiency_metrics |-> _calculate_efficiency_metrics(scan_results),
     waste_analysis |-> Get(scan_results, "waste_analysis", EmptyDict),
     cluster_health |-> _analyze_cluster_health(scan_results),
     risk_assessment |-> _assess_risks(scan_results),
     recommendations_summary |-> _generate_recommendations_summary(scan_results),
     projected_savings |-> _calculate_projected_savings(scan_results)]

SummaryOf(scan_id, found, now) ==
    IF found.raised THEN FailedSummary(scan_id, found.arg, now)
    ELSE IF Get(found.value, "status", None) # "completed"
    THEN FailedSummary(scan_id, <<"Scan ", scan_id, " is not completed or failed">>, now)
    ELSE Summary(scan_id, found.value, now)

\* generate_summary: it handles every exception itself and returns a record
generate_summary(storage, scan_id, now) ==
    SummaryOf(scan_id, get_scan_results(storage, scan_id), now)

----------------------------------------------------------------------------
(* The state while a component is not in use                               *)

NoCall == [op |-> "none"]

ServerIdle ==
    /\ scan_results_storage = EmptyDict
    /\ optimization_results_storage = EmptyDict
    /\ script_storage = EmptyDict
    /\ uuid_counter = 0
    /\ tasks = {}
    /\ last = NoCall
    /\ issued = {}

ClassifierIdle ==
    /\ file_metadata = <<>>
    /\ cold_threshold_days = DefaultColdThresholdDays
    /\ current_time = Now
    /\ classifier_call = "none"
    /\ classifier_result = Return(<<>>)
    /\ repeated = FALSE

BuilderIdle ==
    /\ builder_scan = EmptyDict
    /\ builder_recommendation = EmptyDict
    /\ builder_call = "none"
    /\ builder_result = Return(None)

CalculatorIdle ==
    /\ calc_scan = EmptyDict
    /\ calc_optimizations = <<>>
    /\ growth_rate_percent = DefaultGrowthRatePercent
    /\ calculator_call = "none"
    /\ calculator_result = Return(<<>>)

----------------------------------------------------------------------------
(* server.py: MCPServer's tools over the three stores (Spec)               *)

\* str(uuid.uuid4()): the n-th value handed out
Uuid(n) == "uuid-" \o ToString(n)

\* the ids a caller passes: every id handed out so far and one that never was
CallerIds == {Uuid(i) : i \in 0..uuid_counter}

\* the lists of paths a caller hands to scan_hdfs: none, one path of each kind,
\* and two directories
PathLists == {<<>>} \cup {<<path>> : path \in HdfsPaths} \cup {<<"/d", "/tmp">>}

\* the replies of the advisory service: the request raises, or it answers
\* with a text
WellFormedAnalysis ==
    [analysis_summary |-> "Several optimization opportunities",
     recommendations |->
        <<[title |-> "Tier cold data", description |-> "Move cold files",
           category |-> "cold_data", impact |-> "high",
           estimated_savings_gb |-> Rat(3, 2), implementation_complexity |-> "medium"],
          [title |-> "Merge small files", category |-> "small_files", impact |-> "medium"],
          [title |-> "Lower replication", category |-> "replication", impact |-> "low",
           estimated_savings_gb |-> Int2Rat(2), timeline |-> "immediate"],
          [title |-> "Clean up", category |-> "cleanup", impact |-> "low"],
          [title |-> "Compress logs", category |-> "compression", impact |-> "medium",
           estimated_savings_gb |-> Int2Rat(5), implementation_complexity |-> "high",
           steps |-> <<"Pick codec", "Compress">>]>>,
     cost_calculations |-> [current_monthly_cost |-> Int2Rat(1500),
                            optimized_monthly_cost |-> Int2Rat(900)]]

\* an analysis whose estimated_savings_gb is text, not a number
TextSavingsAnalysis ==
    [analysis_summary |-> "Compress",
     recommendations |->
        <<[title |-> "Compress logs", category |-> "compression", impact |-> "medium",
           estimated_savings_gb |-> [text |-> "150 GB"]]>>,
     cost_calculations |-> EmptyDict]

AdvisoryReplies ==
    {Raise("Exception", <<"OpenAI API error: ", "500">>),
     Return(<<Prose>>),
     Return(<<Braced>>),
     Return(<<Json(WellFormedAnalysis), Prose, Json(WellFormedAnalysis)>>),
     Return(<<Json([analysis_summary |-> "No costs", recommendations |-> <<>>])>>),
     Return(<<Prose, Json(WellFormedAnalysis), Prose>>),
     Return(<<Json(TextSavingsAnalysis)>>)}

\* MCPServer.scan_hdfs around execute_scan, with uuid4() = scan_id
scan_hdfs(scan_id, outcome) ==
    IF outcome.raised
    THEN Return([error |-> outcome.arg, status |-> "failed", scan_id |-> scan_id])
    ELSE Return([outcome.value EXCEPT !.scan_id = scan_id])

\* MCPServer.optimize_costs around generate_recommendations
optimize_costs(scan_id, outcome) ==
    IF outcome.raised
    THEN Return([error |-> outcome.arg, status |-> "failed", scan_id |-> scan_id])
    ELSE outcome

\* MCPServer.get_summary around generate_summary
get_summary(scan_id, outcome) ==
    IF outcome.raised
    THEN Return([error |-> outcome.arg, status |-> "failed", scan_id |-> scan_id])
    ELSE outcome

\* MCPServer.generate_script around create_optimization_script
generate_script(optimization_id, outcome) ==
    IF outcome.raised
    THEN Return(<<"# ", "Script generation failed", ": ">> \o outcome.arg)
    ELSE outcome

\* the same without the check of the scan's status
ScanToOptimizeUnchecked(storage, scan_id) == get_scan_results(storage, scan_id)

\* generate_recommendations up to the await: the scan it goes on with, or
\* the exception
ScanToOptimize(storage, scan_id) ==
    LET scan_results == get_scan_results(storage, scan_id)
    IN  IF scan_results.raised THEN scan_results
        ELSE IF Get(scan_results.value, "status", None) # "completed"
        THEN Raise("ValueError", <<"Scan ", scan_id, " is not completed or failed">>)
        ELSE scan_results

Init ==
    /\ ServerIdle
    /\ ClassifierIdle
    /\ CalculatorIdle
    /\ BuilderIdle

\* the scan store after scan_hdfs: the dict it returns is the dict
\* execute_scan stored, so the scan_id written into it shows in the store
StoreAfterScan(run, stored_id, result) ==
    IF ~run.outcome.raised /\ stored_id \in DOMAIN run.storage
    THEN Put(run.storage, stored_id, result.value)
    ELSE run.storage

\* scan_hdfs(paths)
ScanHdfs(paths) ==
    /\ uuid_counter + 2 <= MaxUuid
    /\ \E scan_id \in {Uuid(uuid_counter + 1)}, stored_id \in {Uuid(uuid_counter + 2)} :
        \E run \in {execute_scan(scan_results_storage, stored_id, paths,
                                 DefaultScanDepth, Now)} :
            \E result \in {scan_hdfs(scan_id, run.outcome)} :
                /\ scan_results_storage' = StoreAfterScan(run, stored_id, result)
                /\ issued' = IF result.value.status = "completed"
                             THEN issued \cup {scan_id} ELSE issued
                /\ last' = [op |-> "scan_hdfs", arg |-> paths,
                            inner |-> run.outcome, outcome |-> result]
    /\ uuid_counter' = uuid_counter + 2
    /\ UNCHANGED <<optimization_results_storage, script_storage, tasks>>
    /\ UNCHANGED <<classifier_vars, calculator_vars, builder_vars>>

\* optimize_costs(scan_id) up to the await inside the advisory client, or to
\* its end when generate_recommendations raises before
OptimizeCostsBegin(scan_id, uuid_limit) ==
    /\ Cardinality(tasks) < MaxTasks
    /\ uuid_counter + Cardinality(tasks) + 2 <= uuid_limit
    /\ \E optimization_id \in {Uuid(uuid_counter + 1)},
          scan_results \in {ScanToOptimize(scan_results_storage, scan_id)} :
        IF scan_results.raised
        THEN /\ optimization_results_storage' =
                 Put(optimization_results_storage, optimization_id,
                     FailedOptimization(optimization_id, scan_id,
                                        scan_results.arg, Now))
             /\ last' = [op |-> "optimize_costs", arg |-> scan_id,
                         optimization_id |-> optimization_id, awaited |-> FALSE,
                         inner |-> scan_results,
                         outcome |-> optimize_costs(scan_id, scan_results)]
             /\ UNCHANGED tasks
        ELSE /\ tasks' = tasks \cup
                 {[optimization_id |-> optimization_id,
                   scan_id |-> scan_id,
                   scan_results |-> scan_results.value,
                   current_costs |->
                     calculate_current_costs(StorageCosts, scan_results.value)]}
             /\ last' = [op |-> "optimize_costs_await", arg |-> scan_id,
                         optimization_id |-> optimization_id]
             /\ UNCHANGED optimization_results_storage
    /\ uuid_counter' = uuid_counter + 1
    /\ UNCHANGED <<scan_results_storage, script_storage, issued>>
    /\ UNCHANGED <<classifier_vars, calculator_vars, builder_vars>>

\* generate_recommendations from the advisory analysis to its return or raise
ResultsOfAnalysis(t, plan_id, llm_analysis) ==
    IF llm_analysis.raised THEN llm_analysis
    ELSE OptimizationResults(t.optimization_id, plan_id, t.scan_id, t.scan_results,
                             t.current_costs, llm_analysis.value, Now)

\* the advisory request of a waiting call ends with reply, and the call
\* runs to its end
OptimizeCostsResume(t, reply) ==
    /\ t \in tasks
    /\ \E llm_analysis \in {analyze_hdfs_cost_optimization(t.scan_results, reply)} :
        \E results \in {ResultsOfAnalysis(t, Uuid(uuid_counter + 1), llm_analysis)} :
            /\ IF results.raised
               THEN /\ optimization_results_storage' =
                         Put(optimization_results_storage, t.optimization_id,
                             FailedOptimization(t.optimization_id, t.scan_id,
                                                results.arg, Now))
                    /\ UNCHANGED script_storage
               ELSE /\ optimization_results_storage' =
                         Put(optimization_results_storage, t.optimization_id,
                             results.value)
                    /\ script_storage' =
                         store_optimization_plan(script_storage, t.optimization_id,
                                                 results.value.optimization_plan, Now)
            /\ last' = [op |-> "optimize_costs", arg |-> t.scan_id,
                        optimization_id |-> t.optimization_id, awaited |-> TRUE,
                        scan_results |-> t.scan_results, reply |-> reply,
                        llm_analysis |-> llm_analysis,
                        inner |-> results,
                        outcome |-> optimize_costs(t.scan_id, results)]
    /\ tasks' = tasks \ {t}
    /\ uuid_counter' = uuid_counter + 1
    /\ UNCHANGED <<scan_results_storage, issued>>
    /\ UNCHANGED <<classifier_vars, calculator_vars, builder_vars>>

\* generate_script(optimization_id); engine_refuses is the template
\* engine's way with a value the plan lacks
GenerateScript(optimization_id, engine_refuses) ==
    /\ last' = [op |-> "generate_script", arg |-> optimization_id,
                outcome |->
                    generate_script(optimization_id,
                        Return(create_optimization_script(script_storage, optimization_id,
                                                          engine_refuses)))]
    /\ UNCHANGED <<scan_results_storage, optimization_results_storage, script_storage,
                   uuid_counter, tasks, issued>>
    /\ UNCHANGED <<classifier_vars, calculator_vars, builder_vars>>

\* get_summary(scan_id)
GetSummary(scan_id) ==
    /\ last' = [op |-> "get_summary", arg |-> scan_id,
                outcome |->
                    get_summary(scan_id,
                                Return(generate_summary(scan_results_storage, scan_id, Now)))]
    /\ UNCHANGED <<scan_results_storage, optimization_results_storage, script_storage,
                   uuid_counter, tasks, issued>>
    /\ UNCHANGED <<classifier_vars, calculator_vars, builder_vars>>

\* endpoints/scan.py's delete_scan_results(scan_id)
DeleteScanResults(scan_id) ==
    /\ \E done \in {delete_scan_results(scan_results_storage, scan_id)} :
        /\ scan_results_storage' = done.storage
        /\ last' = [op |-> "delete_scan_results", arg |-> scan_id,
                    outcome |-> Return(done.deleted)]
    /\ issued' = {}
    /\ UNCHANGED <<optimization_results_storage, script_storage, uuid_counter, tasks>>
    /\ UNCHANGED <<classifier_vars, calculator_vars, builder_vars>>

Next ==
    \/ \E paths \in PathLists : ScanHdfs(paths)
    \/ \E scan_id \in CallerIds : OptimizeCostsBegin(scan_id, MaxUuid)
    \/ \E t \in tasks, reply \in AdvisoryReplies : OptimizeCostsResume(t, reply)
    \/ \E optimization_id \in CallerIds, engine_refuses \in BOOLEAN :
            GenerateScript(optimization_id, engine_refuses)
    \/ \E scan_id \in CallerIds : GetSummary(scan_id)
    \/ \E scan_id \in CallerIds : DeleteScanResults(scan_id)

Spec == Init /\ [][Next]_vars

----------------------------------------------------------------------------
(* Concurrent optimizations over two stored scans (SpecConcurrent)         *)

\* the scan store after scan_hdfs(paths) with uuid4() = scan_id in the server
\* and uuid4() = stored_id in execute_scan
StoreAfterRun(run, scan_id, stored_id) ==
    StoreAfterScan(run, stored_id, scan_hdfs(scan_id, run.outcome))

ScanStored(storage, scan_id, stored_id, paths) ==
    StoreAfterRun(execute_scan(storage, stored_id, paths, DefaultScanDepth, Now),
                  scan_id, stored_id)

\* the scan store after scan_hdfs(["/d"]) and scan_hdfs(["/tmp"])
TwoScansStored ==
    ScanStored(ScanStored(EmptyDict, Uuid(1), Uuid(2), <<"/d">>),
               Uuid(3), Uuid(4), <<"/tmp">>)

InitConcurrent ==
    /\ scan_results_storage = TwoScansStored
    /\ optimization_results_storage = EmptyDict
    /\ script_storage = EmptyDict
    /\ uuid_counter = 4
    /\ tasks = {}
    /\ last = NoCall
    /\ issued = {Uuid(1), Uuid(3)}
    /\ ClassifierIdle
    /\ CalculatorIdle
    /\ BuilderIdle

NextConcurrent ==
    \/ \E scan_id \in CallerIds : OptimizeCostsBegin(scan_id, MaxConcurrentUuid)
    \/ \E t \in tasks, reply \in AdvisoryReplies : OptimizeCostsResume(t, reply)

SpecConcurrent == InitConcurrent /\ [][NextConcurrent]_vars

----------------------------------------------------------------------------
(* The classifier functions called on their own (SpecClassifier)           *)

InitClassifier ==
    /\ ServerIdle
    /\ CalculatorIdle
    /\ BuilderIdle
    /\ file_metadata \in FileLists(MaxFiles)
    /\ cold_threshold_days \in ColdThresholds
    /\ current_time = Now - TicksPerDay
    /\ classifier_call = "none"
    /\ classifier_result = Return(<<>>)
    /\ repeated = FALSE

\* the same whose identify_orphaned_temp_files keeps its list between calls
ClassifyAccumulating(name, now, result) ==
    /\ classifier_call' = name
    /\ classifier_result' =
          IF name = "identify_orphaned_temp_files" /\ classifier_call = name
          THEN Return(classifier_result.value \o result.value)
          ELSE result
    /\ current_time' = now
    /\ repeated' = (classifier_call = name)
    /\ UNCHANGED <<file_metadata, cold_threshold_days>>
    /\ UNCHANGED <<server_vars, calculator_vars, builder_vars>>

\* the same whose identify_orphaned_temp_files tags and sorts the records of
\* its input list in place
ClassifyInPlace(name, now, result) ==
    /\ classifier_call' = name
    /\ classifier_result' = result
    /\ current_time' = now
    /\ repeated' = (classifier_call = name)
    /\ file_metadata' =
          IF name = "identify_orphaned_temp_files" /\ ~result.raised
                /\ Len(result.value) = Len(file_metadata)
          THEN result.value
          ELSE file_metadata
    /\ UNCHANGED cold_threshold_days
    /\ UNCHANGED <<server_vars, calculator_vars, builder_vars>>

\* a call of the function name that read the clock at now (a function that
\* does not read it leaves the reading as it was) and returned result
Classify(name, now, result) ==
    /\ classifier_call' = name
    /\ classifier_result' = result
    /\ current_time' = now
    /\ repeated' = (classifier_call = name)
    /\ UNCHANGED <<file_metadata, cold_threshold_days>>
    /\ UNCHANGED <<server_vars, calculator_vars, builder_vars>>

CallIdentifyColdData ==
    \E now \in ClockFrom(current_time) :
        Classify("identify_cold_data", now,
                 identify_cold_data(file_metadata, now, cold_threshold_days))

CallDetectDuplicateCandidates ==
    Classify("detect_duplicate_candidates", current_time,
             Return(detect_duplicate_candidates(file_metadata)))

CallAnalyzeFileEfficiency ==
    Classify("analyze_file_efficiency", current_time,
             Return(analyze_file_efficiency(file_metadata)))

CallIdentifyOrphanedTempFiles ==
    \E now \in ClockFrom(current_time) :
        Classify("identify_orphaned_temp_files", now,
                 Return(identify_orphaned_temp_files(file_metadata, now)))

CallAnalyzeDirectoryStructure ==
    Classify("analyze_directory_structure", current_time,
             Return(analyze_directory_structure(file_metadata)))

CallCalculateStorageWaste ==
    Classify("calculate_storage_waste", current_time,
             Return(calculate_storage_waste(file_metadata)))

CallGenerateOptimizationPriority ==
    \E now \in ClockFrom(current_time) :
        Classify("generate_optimization_priority", now,
                 generate_optimization_priority(file_metadata, now))

NextClassifier ==
    \/ CallIdentifyColdData
    \/ CallDetectDuplicateCandidates
    \/ CallAnalyzeFileEfficiency
    \/ CallIdentifyOrphanedTempFiles
    \/ CallAnalyzeDirectoryStructure
    \/ CallCalculateStorageWaste
    \/ CallGenerateOptimizationPriority

SpecClassifier == InitClassifier /\ [][NextClassifier]_vars

----------------------------------------------------------------------------
(* The calculator operations called on their own (SpecCalculator)          *)

\* the scans handed to the calculator: what execute_scan returns for a scan
\* without files and for every list of at most MaxCalcFiles files
CalculatorScans ==
    {NoFilesResults(1, Now)}
    \cup {CompletedResults(1, <<"/">>, 3, files, Now).value :
            files \in FileLists(MaxCalcFiles) \ {<<>>}}

OptimizationCategories ==
    {"cold_data", "small_files", "replication", "cleanup", "compression", "archive"}

\* an optimization that names no category
UncategorisedOptimization == [title |-> "Tidy up"]

OptimizationInputs ==
    [category : OptimizationCategories] \cup {UncategorisedOptimization}

\* optimizations as calculate_optimization_savings reads them: by category
OptimizationLists(n) ==
    UNION {[1..k -> OptimizationInputs] : k \in 0..n}

GrowthRates == {0, DefaultGrowthRatePercent}

\* the growth rate is an argument of estimate_storage_growth only: a run
\* varies it or the optimizations, which the other operations read
GrowthRatesWith(optimizations) ==
    IF optimizations = <<>> THEN GrowthRates ELSE {DefaultGrowthRatePercent}

InitCalculator ==
    /\ ServerIdle
    /\ ClassifierIdle
    /\ BuilderIdle
    /\ calc_scan \in CalculatorScans
    /\ calc_optimizations \in OptimizationLists(MaxOptimizations)
    /\ growth_rate_percent \in GrowthRatesWith(calc_optimizations)
    /\ calculator_call = "none"
    /\ calculator_result = Return(<<>>)

Calculate(name, result) ==
    /\ calculator_call' = name
    /\ calculator_result' = result
    /\ UNCHANGED <<calc_scan, calc_optimizations, growth_rate_percent>>
    /\ UNCHANGED <<server_vars, classifier_vars, builder_vars>>

CallCalculateCurrentCosts ==
    Calculate("calculate_current_costs",
              Return(calculate_current_costs(StorageCosts, calc_scan)))

CallCalculateOptimizationSavings ==
    Calculate("calculate_optimization_savings",
              Return(calculate_optimization_savings(StorageCosts, calc_scan,
                                                    calc_optimizations)))

CallGenerateCostReport ==
    Calculate("generate_cost_report",
              Return(generate_cost_report(StorageCosts, calc_scan, calc_optimizations)))

CallEstimateStorageGrowth ==
    Calculate("estimate_storage_growth",
              estimate_storage_growth(StorageCosts, calc_scan, growth_rate_percent))

NextCalculator ==
    \/ CallCalculateCurrentCosts
    \/ CallCalculateOptimizationSavings
    \/ CallGenerateCostReport
    \/ CallEstimateStorageGrowth

SpecCalculator == InitCalculator /\ [][NextCalculator]_vars

----------------------------------------------------------------------------
(* The action constructors called on their own (SpecPlanBuilder)           *)

\* n files of 1 MiB in the directory /<dir>, named a, b, c, ...
DirFiles(dir, n) ==
    [k \in 1..n |-> FileRecord(<<"/", dir, "/", LowerCase[k]>>, 1024 * 1024, 3, Now, Now)]

\* /p/z: 128 MiB, not a small file
FileLarge == FileRecord(<<"/", "p", "/", "z">>, 128 * 1024 * 1024, 3, Now, Now)

\* the files of a scan: some in /p, some in /q, with or without the large one
BuilderFiles ==
    {DirFiles("p", n) \o large \o DirFiles("q", m) :
        n \in 0..MaxDirFiles, m \in 0..MaxDirFiles, large \in {<<>>, <<FileLarge>>}}

\* the entries of execute_scan's results that the constructors read
ScanEntries(files, efficiency) ==
    [status |-> "completed",
     total_files |-> Len(files),
     cold_data |-> identify_cold_data(files, Now, DefaultColdThresholdDays).value,
     small_files |-> efficiency.small_files,
     empty_files |-> efficiency.empty_files,
     over_replicated_files |-> efficiency.inefficient_replication,
     orphaned_files |-> identify_orphaned_temp_files(files, Now)]

BuilderScans == {ScanEntries(files, analyze_file_efficiency(files)) : files \in BuilderFiles}

BuilderRecommendations ==
    {EmptyDict,
     [title |-> "Consolidate", estimated_savings_gb |-> Int2Rat(2),
      implementation_complexity |-> "medium"]}

InitPlanBuilder ==
    /\ ServerIdle
    /\ ClassifierIdle
    /\ CalculatorIdle
    /\ builder_scan \in BuilderScans
    /\ builder_recommendation \in BuilderRecommendations
    /\ builder_call = "none"
    /\ builder_result = Return(None)

Construct(name, result) ==
    /\ builder_call' = name
    /\ builder_result' = result
    /\ UNCHANGED <<builder_scan, builder_recommendation>>
    /\ UNCHANGED <<server_vars, classifier_vars, calculator_vars>>

CallCreateColdDataOptimization ==
    Construct("_create_cold_data_optimization",
              _create_cold_data_optimization(builder_scan, builder_recommendation))

CallCreateSmallFilesOptimization ==
    Construct("_create_small_files_optimization",
              _create_small_files_optimization(builder_scan, builder_recommendation))

CallCreateReplicationOptimization ==
    Construct("_create_replication_optimization",
              _create_replication_optimization(builder_scan, builder_recommendation))

CallCreateCleanupOptimization ==
    Construct("_create_cleanup_optimization",
              _create_cleanup_optimization(builder_scan, builder_recommendation))

CallCreateGenericOptimization ==
    Construct("_create_generic_optimization",
              _create_generic_optimization(builder_scan, builder_recommendation))

NextPlanBuilder ==
    \/ CallCreateColdDataOptimization
    \/ CallCreateSmallFilesOptimization
    \/ CallCreateReplicationOptimization
    \/ CallCreateCleanupOptimization
    \/ CallCreateGenericOptimization

SpecPlanBuilder == InitPlanBuilder /\ [][NextPlanBuilder]_vars

----------------------------------------------------------------------------
(* Claims about the classifier                                             *)

\* C6: every classifier function returns a result without raising, for every
\* list of file records (the empty list and records with missing optional
\* fields included) and, for identify_cold_data, for every non-negative
\* cold_threshold_days, 0 included.
C6_ClassifiersAreTotal ==
    classifier_call # "none" => ~classifier_result.raised

\* the positions of the input records identify_cold_data must return
ColdPositions ==
    {i \in 1..Len(file_metadata) :
        Get(file_metadata[i], "access_time", 0)
            < current_time - (cold_threshold_days * TicksPerDay)}

\* out lists the input records at the positions pos, each position once, by
\* cold_score descending and, among equal scores, in input order
IsColdListing(out, pos) ==
    \E at \in [1..Len(out) -> pos] :
        /\ \A p \in pos : \E i \in 1..Len(out) : at[i] = p
        /\ \A i, j \in 1..Len(out) : i # j => at[i] # at[j]
        /\ \A i \in 1..Len(out) :
              \A k \in DOMAIN file_metadata[at[i]] : out[i][k] = file_metadata[at[i]][k]
        /\ \A i, j \in 1..Len(out) :
              i < j => \/ RLt(out[j].cold_score, out[i].cold_score)
                       \/ out[j].cold_score = out[i].cold_score /\ at[i] < at[j]

\* C10: identify_cold_data(files, threshold_days) returns exactly the records
\* with access_time < now - threshold_days*ms_per_day (a missing access_time
\* counted as 0), each once, ordered by cold_score descending with records of
\* equal score in input order.
C10_ColdDataExactAndOrdered ==
    classifier_call = "identify_cold_data" =>
        /\ ~classifier_result.raised
        /\ IsColdListing(classifier_result.value, ColdPositions)

\* the same statement for the thresholds the division accepts
ColdDataExactForPositiveThreshold ==
    (classifier_call = "identify_cold_data" /\ cold_threshold_days > 0) =>
        /\ ~classifier_result.raised
        /\ IsColdListing(classifier_result.value, ColdPositions)

----------------------------------------------------------------------------
(* Claims about the cost calculator                                        *)

\* a scan with total_size_gb = 0, total_files = 0 and no classified files
ZeroValuedScan(scan) ==
    /\ Get(scan, "total_size_gb", RZero) = RZero
    /\ Get(scan, "total_files", 0) = 0
    /\ Get(scan, "cold_data", <<>>) = <<>>
    /\ Get(scan, "small_files", <<>>) = <<>>
    /\ Get(scan, "orphaned_files", <<>>) = <<>>

\* C7: no Cost Calculator operation raises on a zero-valued scan; every
\* division by zero is resolved to 0 or to the infinity sentinel.
C7_CalculatorNeverRaisesOnZeroScan ==
    (calculator_call # "none" /\ ZeroValuedScan(calc_scan)) => ~calculator_result.raised

----------------------------------------------------------------------------
(* Claims about the server's tools                                         *)

\* C1: the scan_id scan_hdfs returned with status "completed" identifies the
\* stored scan: with no delete since, optimize_costs and get_summary called
\* with it return status "completed" and that same scan_id.
C1_ReturnedScanIdIdentifiesStoredScan ==
    (last.op \in {"optimize_costs", "get_summary"} /\ last.arg \in issued)
        => /\ last.outcome.value.status = "completed"
           /\ last.outcome.value.scan_id = last.arg

\* a step in which optimize_costs(scan_id) starts: it ends in the same step
\* (before the await) or it is left waiting for the advisory reply
StartsOptimize ==
    /\ last'.op \in {"optimize_costs", "optimize_costs_await"}
    /\ last'.op = "optimize_costs" => ~last'.awaited
    /\ last'.optimization_id = Uuid(uuid_counter + 1)

\* every completed optimization result of the next state was there before
NoNewCompletedResult ==
    \A o \in DOMAIN optimization_results_storage' :
        optimization_results_storage'[o].status = "completed"
            => /\ o \in DOMAIN optimization_results_storage
               /\ optimization_results_storage[o] = optimization_results_storage'[o]

\* C2: generate_recommendations on a stored scan whose status is not
\* "completed" raises an error that names the scan id; no plan is built or
\* stored, no call is left waiting, no "completed" result is recorded.
C2_NotCompletedScanIsRejected ==
    [][(/\ StartsOptimize
        /\ last'.arg \in DOMAIN scan_results_storage
        /\ scan_results_storage[last'.arg].status # "completed")
       => /\ last'.op = "optimize_costs"
          /\ last'.inner.raised
          /\ \E i \in 1..Len(last'.inner.arg) : last'.inner.arg[i] = last'.arg
          /\ script_storage' = script_storage
          /\ tasks' = tasks
          /\ NoNewCompletedResult]_vars

\* optimize_costs was called on a stored failed scan and has ended
C2_Witness ==
    /\ last.op = "optimize_costs"
    /\ ~last.awaited
    /\ last.arg \in DOMAIN scan_results_storage
    /\ scan_results_storage[last.arg].status = "failed"
    /\ last.inner.raised
    /\ optimization_results_storage[last.optimization_id].status = "failed"

\* C3: for a scan_id that is not in the scan store, optimize_costs and
\* get_summary return status "failed" with an error message, do not raise,
\* and leave the scan store as it was.
C3_UnknownScanIdFailsQuietly ==
    [][(/\ \/ StartsOptimize
           \/ last'.op = "get_summary"
        /\ last'.arg \notin DOMAIN scan_results_storage)
       => /\ last'.op # "optimize_costs_await"
          /\ ~last'.outcome.raised
          /\ last'.outcome.value.status = "failed"
          /\ "error" \in DOMAIN last'.outcome.value
          /\ scan_results_storage' = scan_results_storage]_vars

\* a scan is stored, and optimize_costs has just answered for an id that is
\* not in the store
C3_Witness ==
    /\ scan_results_storage # EmptyDict
    /\ last.op = "optimize_costs"
    /\ ~last.awaited
    /\ last.arg \notin DOMAIN scan_results_storage
    /\ last.outcome.value.status = "failed"

\* C4: scan_hdfs called with an empty list of paths raises an exception.
C4_EmptyPathsRaise ==
    (last.op = "scan_hdfs" /\ last.arg = <<>>) => last.outcome.raised

\* the advisory request failed, or its reply cannot be parsed
AdvisoryFailed(reply) == reply.raised \/ _parse_cost_analysis(reply.value).raised

\* the reply parses, and what it estimates are numbers
AdvisoryWorks(reply) ==
    /\ ~AdvisoryFailed(reply)
    /\ LET recommendations == _parse_cost_analysis(reply.value).value.recommendations
       IN  \A i \in 1..Len(recommendations) :
              "n" \in DOMAIN Get(recommendations[i], "estimated_savings_gb", RZero)

C8_UnknownPlanGivesFailureScript ==
    [][(/\ last'.op = "generate_script"
        /\ last'.arg \notin DOMAIN script_storage)
       => /\ ~last'.outcome.raised
          /\ \E i \in 1..Len(last'.outcome.value) :
                last'.outcome.value[i] = "Script generation failed"
          /\ UNCHANGED <<scan_results_storage, optimization_results_storage,
                         script_storage>>]_vars

\* plans are stored, and generate_script has just answered for an id that
\* has none
C8_Witness ==
    /\ script_storage # EmptyDict
    /\ last.op = "generate_script"
    /\ last.arg \notin DOMAIN script_storage
    /\ \E i \in 1..Len(last.outcome.value) :
            last.outcome.value[i] = "Script generation failed"

\* what is stored stays as it is
StoredEntriesKept ==
    /\ \A o \in DOMAIN optimization_results_storage :
            /\ o \in DOMAIN optimization_results_storage'
            /\ optimization_results_storage'[o] = optimization_results_storage[o]
    /\ \A o \in DOMAIN script_storage :
            /\ o \in DOMAIN script_storage'
            /\ script_storage'[o] = script_storage[o]

\* the call t, ending in this step, leaves its own result and plan
EndsWithOwnResult(t) ==
    LET o == t.optimization_id
        r == optimization_results_storage'[o]
    IN  /\ o \notin DOMAIN optimization_results_storage
        /\ DOMAIN optimization_results_storage' = DOMAIN optimization_results_storage \cup {o}
        /\ r.optimization_id = o
        /\ r.scan_id = t.scan_id
        /\ IF r.status = "completed"
           THEN /\ r.current_costs = calculate_current_costs(StorageCosts, t.scan_results)
                /\ r.llm_analysis \in
                      {_generate_fallback_analysis(t.scan_results), WellFormedAnalysis}
                /\ r.optimization_plan =
                      _create_optimization_plan(r.optimization_plan.plan_id, t.scan_results,
                                                r.llm_analysis, Now).value
                /\ DOMAIN script_storage' = DOMAIN script_storage \cup {o}
                /\ o \notin DOMAIN script_storage
                /\ script_storage'[o].plan = r.optimization_plan
           ELSE script_storage' = script_storage

\* the call t, starting in this step, works on the scan stored under its
\* scan_id and has an optimization_id of its own
StartsOnOwnScan(t) ==
    /\ t.scan_id \in DOMAIN scan_results_storage
    /\ t.scan_results = scan_results_storage[t.scan_id]
    /\ t.optimization_id \notin DOMAIN optimization_results_storage
    /\ \A u \in tasks : u.optimization_id # t.optimization_id

\* C9: generate_recommendations calls interleaved at the advisory await,
\* each on its own scan, each leave a result and a plan derived from that
\* call's scan only, stored under that call's optimization_id; nothing
\* stored is overwritten by or mixed with another call's.
C9_ConcurrentCallsKeepApart ==
    [][/\ StoredEntriesKept
       /\ \A t \in tasks \ tasks' : EndsWithOwnResult(t)
       /\ \A t \in tasks' \ tasks : StartsOnOwnScan(t)]_vars

\* two calls on different scans, the second started while the first was
\* waiting and ended before the first did, both completed
C9_Witness ==
    \E i, j, k, l \in 1..MaxConcurrentUuid :
        /\ i < j /\ j < k /\ k < l
        /\ {Uuid(i), Uuid(j)} \subseteq DOMAIN optimization_results_storage
        /\ {Uuid(i), Uuid(j)} \subseteq DOMAIN script_storage
        /\ optimization_results_storage[Uuid(i)].status = "completed"
        /\ optimization_results_storage[Uuid(j)].status = "completed"
        /\ optimization_results_storage[Uuid(i)].scan_id
                # optimization_results_storage[Uuid(j)].scan_id
        /\ script_storage[Uuid(j)].plan.plan_id = Uuid(k)
        /\ script_storage[Uuid(i)].plan.plan_id = Uuid(l)

----------------------------------------------------------------------------
(* Claims about the classes the classifier assigns                         *)

\* size and replication of the i-th input record, read as the code reads them
SizeAt(i) == Get(file_metadata[i], "size", 0)
ReplicationAt(i) == Get(file_metadata[i], "replication", 1)

\* the k-th smallest element of a set of positions
Nth(S, k) == CHOOSE i \in S : Cardinality({j \in S : j < i}) = k - 1

\* the returned record carries every field of the input record unchanged
Extends(out, in) == \A k \in DOMAIN in : k \in DOMAIN out /\ out[k] = in[k]

\* out lists the input records at the positions S, each once, in input order
ListsRecordsAt(out, S) ==
    /\ Len(out) = Cardinality(S)
    /\ \A k \in 1..Len(out) : Extends(out[k], file_metadata[Nth(S, k)])

\* C11: in analyze_file_efficiency a record is in empty_files iff size = 0,
\* in small_files iff 0 < size < 64 MiB (exactly 64 MiB is not small, no
\* record is both empty and small), and in inefficient_replication iff
\* replication > 3 (3 is not), whatever its size, with
\* suggested_replication = 3 and excess_replicas = replication - 3; each
\* reported count equals the length of its list.
C11_EfficiencyClasses ==
    classifier_call = "analyze_file_efficiency" =>
        LET r == classifier_result.value
            all == 1..Len(file_metadata)
        IN  /\ ListsRecordsAt(r.empty_files, {i \in all : SizeAt(i) = 0})
            /\ ListsRecordsAt(r.small_files,
                              {i \in all : 0 < SizeAt(i) /\ SizeAt(i) < 64 * 1024 * 1024})
            /\ ListsRecordsAt(r.inefficient_replication,
                              {i \in all : ReplicationAt(i) > 3})
            /\ \A k \in 1..Len(r.inefficient_replication) :
                  /\ r.inefficient_replication[k].suggested_replication = 3
                  /\ r.inefficient_replication[k].excess_replicas
                        = r.inefficient_replication[k].replication - 3
            /\ r.empty_files_count = Len(r.empty_files)
            /\ r.small_files_count = Len(r.small_files)
            /\ r.over_replicated_count = Len(r.inefficient_replication)
            /\ r.total_files = Len(file_metadata)

\* analyze_file_efficiency was called on a list with a record of exactly
\* 64 MiB and three replicas, which is in none of the lists, and a small
\* record with more than three replicas, which is in two of them
C11_Witness ==
    /\ classifier_call = "analyze_file_efficiency"
    /\ \E i \in 1..Len(file_metadata) :
          SizeAt(i) = 64 * 1024 * 1024 /\ ReplicationAt(i) = 3
    /\ \E i \in 1..Len(file_metadata) :
          /\ 0 < SizeAt(i) /\ SizeAt(i) < 64 * 1024 * 1024 /\ ReplicationAt(i) > 3
          /\ \E k \in 1..Len(classifier_result.value.small_files) :
                classifier_result.value.small_files[k].path = file_metadata[i].path
          /\ \E k \in 1..Len(classifier_result.value.inefficient_replication) :
                classifier_result.value.inefficient_replication[k].path
                    = file_metadata[i].path
    /\ Len(classifier_result.value.small_files) < Len(file_metadata)

\* the ten temp patterns
TenTempPatterns ==
    {<<"/", "t", "m", "p", "/">>, <<"/", "v", "a", "r", "/", "t", "m", "p", "/">>,
     <<"/", "_", "t", "e", "m", "p", "o", "r", "a", "r", "y", "/">>,
     <<"/", "t", "e", "m", "p", "/">>, <<".", "t", "m", "p">>, <<".", "t", "e", "m", "p">>,
     <<".", "b", "a", "k">>, <<".", "b", "a", "c", "k", "u", "p">>,
     <<"_", "t", "m", "p">>, <<"_", "t", "e", "m", "p">>}

\* the lower-cased path of the record contains one of the ten patterns
HasTempPath(file_info) ==
    \E pattern \in TenTempPatterns : Contains(Lower(Get(file_info, "path", <<>>)), pattern)

\* now - modification_time of the record, in ticks
AgeTicks(file_info) == current_time - Get(file_info, "modification_time", 0)

\* out lists the input records at the positions pos, each position once
IsListingOf(out, pos) ==
    \E at \in [1..Len(out) -> pos] :
        /\ \A p \in pos : \E i \in 1..Len(out) : at[i] = p
        /\ \A i, j \in 1..Len(out) : i # j => at[i] # at[j]
        /\ \A i \in 1..Len(out) : Extends(out[i], file_metadata[at[i]])

\* C12: identify_orphaned_temp_files returns exactly the records whose
\* lower-cased path contains one of the ten temp patterns and whose age in
\* days is strictly greater than 7; cleanup_priority is "medium" for age <= 30,
\* "high" for 30 < age <= 90 and "critical" for age > 90; the output is sorted
\* by age_days descending.
C12_OrphanedExactAndRanked ==
    classifier_call = "identify_orphaned_temp_files" =>
        LET out == classifier_result.value
        IN  /\ IsListingOf(out, {i \in 1..Len(file_metadata) :
                                    /\ HasTempPath(file_metadata[i])
                                    /\ AgeTicks(file_metadata[i]) > 7 * TicksPerDay})
            /\ \A i \in 1..Len(out) :
                  /\ out[i].age_days = Rat(AgeTicks(out[i]), TicksPerDay)
                  /\ out[i].cleanup_priority =
                        IF AgeTicks(out[i]) <= 30 * TicksPerDay THEN "medium"
                        ELSE IF AgeTicks(out[i]) <= 90 * TicksPerDay THEN "high"
                        ELSE "critical"
            /\ \A i, j \in 1..Len(out) :
                  i < j => ~RLt(out[i].age_days, out[j].age_days)

\* identify_orphaned_temp_files was called on a temp record aged exactly 7
\* days, which it left out, and a temp record aged exactly 90 days, which it
\* returned with priority "high"
C12_Witness ==
    /\ classifier_call = "identify_orphaned_temp_files"
    /\ \E i \in 1..Len(file_metadata) :
          HasTempPath(file_metadata[i]) /\ AgeTicks(file_metadata[i]) = 7 * TicksPerDay
    /\ Len(classifier_result.value) = 1
    /\ AgeTicks(classifier_result.value[1]) = 90 * TicksPerDay
    /\ classifier_result.value[1].cleanup_priority = "high"

----------------------------------------------------------------------------
(* Claims about the savings the calculator computes                        *)

\* the total size in bytes of a list of file records
TotalSize(files) ==
    LET T[i \in 0..Len(files)] ==
            IF i = 0 THEN 0 ELSE T[i - 1] + Get(files[i], "size", 0)
    IN  T[Len(files)]

\* the total size in GB of the scan's over-replicated files
OverReplicatedGb(scan) ==
    Rat(TotalSize(Get(scan, "over_replicated_files", <<>>)), 1024 * 1024 * 1024)

\* C13: for scan results produced by execute_scan, the replication saving
\* computed by calculate_optimization_savings has affected_data_gb equal to
\* the total size in GB of the scan's over-replicated files, current_cost =
\* that size x standard rate x 4, optimized_cost = that size x standard rate
\* x 3, and implementation_cost = 0.
C13_ReplicationSavingCoversOverReplicated ==
    calculator_call = "calculate_optimization_savings" =>
        \A k \in 1..Len(calculator_result.value) :
            calculator_result.value[k].category = "replication" =>
                /\ calculator_result.value[k].affected_data_gb = OverReplicatedGb(calc_scan)
                /\ calculator_result.value[k].current_cost =
                      RMul(RMul(OverReplicatedGb(calc_scan),
                                StorageCosts.standard_storage_cost_per_gb), Int2Rat(4))
                /\ calculator_result.value[k].optimized_cost =
                      RMul(RMul(OverReplicatedGb(calc_scan),
                                StorageCosts.standard_storage_cost_per_gb), Int2Rat(3))
                /\ calculator_result.value[k].implementation_cost = RZero

\* savings / current_cost * 100 when current_cost > 0, and 0 otherwise
PercentOfCurrent(saving) ==
    IF RLt(RZero, saving.current_cost)
    THEN RMul(RDiv(saving.savings, saving.current_cost).value, Int2Rat(100))
    ELSE RZero

\* C14: in each of the five savings formulas (cold_data, small_files,
\* replication, cleanup, compression), savings_percent equals
\* savings/current_cost*100 when current_cost > 0 and equals 0 when
\* current_cost <= 0.
C14_SavingsPercentOfCurrentCost ==
    calculator_call = "calculate_optimization_savings" =>
        \A k \in 1..Len(calculator_result.value) :
            calculator_result.value[k].savings_percent
                = PercentOfCurrent(calculator_result.value[k])

\* the same statement for the four formulas other than cleanup
SavingsPercentOutsideCleanup ==
    calculator_call = "calculate_optimization_savings" =>
        \A k \in 1..Len(calculator_result.value) :
            calculator_result.value[k].category # "cleanup" =>
                calculator_result.value[k].savings_percent
                    = PercentOfCurrent(calculator_result.value[k])

----------------------------------------------------------------------------
(* Claims about the plan built from an analysis                            *)

\* optimize_costs ran to its end after the advisory reply and built a plan
PlanBuilt ==
    /\ last.op = "optimize_costs"
    /\ last.awaited
    /\ ~last.inner.raised

\* the plan, the recommendations it was built from, and the scan
BuiltPlan == last.inner.value.optimization_plan
PlanRecommendations == Get(last.llm_analysis.value, "recommendations", <<>>)

\* the positions of the plan's actions of a category
ActionsOf(category) ==
    {i \in 1..Len(BuiltPlan.optimizations) :
        BuiltPlan.optimizations[i].category = category}

\* the scan holds nothing a recommendation of the category could act on
NoCandidates(scan, category) ==
    CASE category = "cold_data" ->
            \A i \in 1..Len(Get(scan, "cold_data", <<>>)) :
                ~RLt(Int2Rat(90), Get(scan.cold_data[i], "days_since_access", RZero))
      [] category = "small_files" ->
            \A i \in 1..Len(Get(scan, "small_files", <<>>)) :
                Cardinality({j \in 1..Len(scan.small_files) :
                                ParentOf(Get(scan.small_files[j], "path", <<>>))
                                    = ParentOf(Get(scan.small_files[i], "path", <<>>))}) < 10
      [] category = "replication" -> Get(scan, "over_replicated_files", <<>>) = <<>>
      [] category = "cleanup" ->
            /\ Get(scan, "orphaned_files", <<>>) = <<>>
            /\ Get(scan, "empty_files", <<>>) = <<>>

\* the sum of a field over the plan's actions
PlanSum(field) ==
    LET T[i \in 0..Len(BuiltPlan.optimizations)] ==
            IF i = 0 THEN RZero
            ELSE RAdd(T[i - 1], Get(BuiltPlan.optimizations[i], field, RZero))
    IN  T[Len(BuiltPlan.optimizations)]

\* C15: in the plan built by _create_optimization_plan, a cold_data,
\* small_files, replication or cleanup recommendation whose candidate set is
\* empty contributes no action, and the plan's total_monthly_savings and
\* affected_data_gb equal the sums of estimated_monthly_savings and
\* affected_data_gb over exactly the actions present in the plan, with
\* total_annual_savings = 12 x total_monthly_savings.
C15_EmptyCandidatesDroppedFromPlan ==
    PlanBuilt =>
        /\ \A category \in {"cold_data", "small_files", "replication", "cleanup"} :
              NoCandidates(last.scan_results, category) => ActionsOf(category) = {}
        /\ BuiltPlan.total_monthly_savings = PlanSum("estimated_monthly_savings")
        /\ BuiltPlan.affected_data_gb = PlanSum("affected_data_gb")
        /\ BuiltPlan.total_annual_savings
              = RMul(BuiltPlan.total_monthly_savings, Int2Rat(12))

\* a plan was built from recommendations for replication and for cleanup on
\* a scan without over-replicated files: the replication recommendation is
\* dropped, the cleanup action is there and the totals are not zero
C15_Witness ==
    /\ PlanBuilt
    /\ \E i \in 1..Len(PlanRecommendations) :
          PlanRecommendations[i].category = "replication"
    /\ NoCandidates(last.scan_results, "replication")
    /\ ActionsOf("replication") = {}
    /\ ActionsOf("cleanup") # {}
    /\ BuiltPlan.affected_data_gb # RZero
    /\ Len(BuiltPlan.optimizations) >= 2

\* the positions of the optimizations handed in that name a costed category
CostedPositions ==
    {i \in 1..Len(calc_optimizations) :
        Get(calc_optimizations[i], "category", "unknown")
            \in {"cold_data", "small_files", "replication", "cleanup", "compression"}}

\* C16: calculate_optimization_savings returns exactly one saving record per
\* input optimization whose category is one of cold_data, small_files,
\* replication, cleanup, compression, in input order; an optimization with
\* any other or missing category contributes no record and raises no error.
C16_OneSavingPerCostedCategory ==
    calculator_call = "calculate_optimization_savings" =>
        /\ ~calculator_result.raised
        /\ Len(calculator_result.value) = Cardinality(CostedPositions)
        /\ \A k \in 1..Len(calculator_result.value) :
              calculator_result.value[k].category
                  = calc_optimizations[Nth(CostedPositions, k)].category

\* the savings of two optimizations were computed, the first of them without
\* a costed category: one record, of the second optimization
C16_Witness ==
    /\ calculator_call = "calculate_optimization_savings"
    /\ Len(calc_optimizations) = 2
    /\ calc_optimizations[1] = UncategorisedOptimization
    /\ CostedPositions = {2}
    /\ Len(calculator_result.value) = 1
    /\ calculator_result.value[1].category = "cleanup"

PlanCategories == {"cold_data", "small_files", "replication", "cleanup"}

\* optimize_costs came back from the advisory request with an analysis
AnalysisObtained ==
    /\ last.op = "optimize_costs"
    /\ last.awaited
    /\ ~last.llm_analysis.raised

\* the positions of the recommendations no action constructor is named for
GenericRecommendations ==
    {i \in 1..Len(PlanRecommendations) :
        Get(PlanRecommendations[i], "category", "unknown") \notin PlanCategories}

\* the positions of the plan's actions of no such category
GenericActions ==
    {i \in 1..Len(BuiltPlan.optimizations) :
        BuiltPlan.optimizations[i].category \notin PlanCategories}

\* the k-th generic action carries what the k-th generic recommendation holds
GenericCarried(k) ==
    /\ BuiltPlan.optimizations[Nth(GenericActions, k)].category
          = Get(PlanRecommendations[Nth(GenericRecommendations, k)], "category", "generic")
    /\ BuiltPlan.optimizations[Nth(GenericActions, k)].affected_data_gb
          = Get(PlanRecommendations[Nth(GenericRecommendations, k)],
                "estimated_savings_gb", RZero)
    /\ BuiltPlan.optimizations[Nth(GenericActions, k)].steps
          = Get(PlanRecommendations[Nth(GenericRecommendations, k)], "steps", <<>>)

\* C17: a recommendation whose category is none of cold_data, small_files,
\* replication, cleanup always yields exactly one generic action in the plan,
\* carrying the recommendation's category, its estimated_savings_gb (as
\* affected_data_gb) and its steps unchanged; such a recommendation is never
\* dropped.
C17_GenericRecommendationAlwaysKept ==
    AnalysisObtained =>
        \/ GenericRecommendations = {}
        \/ /\ PlanBuilt
           /\ Cardinality(GenericActions) = Cardinality(GenericRecommendations)
           /\ \A k \in 1..Cardinality(GenericActions) : GenericCarried(k)

\* what holds of the plans that are built: one generic action for each such
\* recommendation, in order, with its category, estimate and steps
GenericKeptInBuiltPlans ==
    PlanBuilt =>
        /\ Cardinality(GenericActions) = Cardinality(GenericRecommendations)
        /\ \A k \in 1..Cardinality(GenericActions) : GenericCarried(k)

\* a plan with a generic action carrying steps was built
GenericActionBuilt ==
    /\ PlanBuilt
    /\ \E i \in GenericActions : BuiltPlan.optimizations[i].steps # <<>>

----------------------------------------------------------------------------
(* Claims about the list of opportunities                                  *)

\* the four kinds of opportunity in the order they are tested for
ConstructionOrder ==
    <<"cold_data_migration", "small_file_consolidation",
      "orphaned_file_cleanup", "replication_optimization">>

\* the input holds a record of the kind's category
NonEmptyCategory(type) ==
    \E i \in 1..Len(file_metadata) :
        CASE type = "cold_data_migration" ->
                Get(file_metadata[i], "access_time", 0) < current_time - (180 * TicksPerDay)
          [] type = "small_file_consolidation" ->
                SizeAt(i) > 0 /\ SizeAt(i) < 64 * 1024 * 1024
          [] type = "orphaned_file_cleanup" ->
                HasTempPath(file_metadata[i]) /\ AgeTicks(file_metadata[i]) > 7 * TicksPerDay
          [] type = "replication_optimization" -> ReplicationAt(i) > 3

Rank(level) == CASE level = "high" -> 3 [] level = "medium" -> 2 [] level = "low" -> 1

\* (priority rank, impact rank) of x is greater than that of y
RankAbove(x, y) ==
    \/ Rank(x.priority) > Rank(y.priority)
    \/ Rank(x.priority) = Rank(y.priority) /\ Rank(x.impact) > Rank(y.impact)

ConstructionIndex(type) == CHOOSE k \in 1..4 : ConstructionOrder[k] = type

\* C18: generate_optimization_priority returns one entry per non-empty
\* category among cold_data_migration, small_file_consolidation,
\* orphaned_file_cleanup and replication_optimization, ordered descending by
\* (priority rank, impact rank) with high=3, medium=2, low=1, entries of equal
\* rank staying in construction order cold, small-files, orphaned,
\* replication.
C18_OpportunitiesRanked ==
    classifier_call = "generate_optimization_priority" =>
        /\ ~classifier_result.raised
        /\ \A k \in 1..4 :
              Cardinality({i \in 1..Len(classifier_result.value) :
                              classifier_result.value[i].type = ConstructionOrder[k]})
                  = IF NonEmptyCategory(ConstructionOrder[k]) THEN 1 ELSE 0
        /\ \A i \in 1..Len(classifier_result.value) :
              classifier_result.value[i].type \in {ConstructionOrder[k] : k \in 1..4}
        /\ \A i, j \in 1..Len(classifier_result.value) :
              i < j =>
                 \/ RankAbove(classifier_result.value[i], classifier_result.value[j])
                 \/ /\ ~RankAbove(classifier_result.value[j], classifier_result.value[i])
                    /\ ConstructionIndex(classifier_result.value[i].type)
                          < ConstructionIndex(classifier_result.value[j].type)

\* the list for an input with an orphaned and an over-replicated record and
\* nothing cold: replication optimization, of the higher impact, comes first
C18_Witness ==
    /\ classifier_call = "generate_optimization_priority"
    /\ ~NonEmptyCategory("cold_data_migration")
    /\ Len(classifier_result.value) >= 2
    /\ \E i \in 1..(Len(classifier_result.value) - 1) :
          /\ classifier_result.value[i].type = "replication_optimization"
          /\ classifier_result.value[i + 1].type = "orphaned_file_cleanup"

----------------------------------------------------------------------------
(* Claims about repeated calls of a classifier function                    *)

\* a step that calls again the function called before it, on the same input
CalledAgain ==
    /\ classifier_call # "none"
    /\ classifier_call' = classifier_call
    /\ file_metadata' = file_metadata
    /\ cold_threshold_days' = cold_threshold_days

ClockLeftByTheOthers ==
    [][classifier_call' \in {"detect_duplicate_candidates", "analyze_file_efficiency",
                             "analyze_directory_structure", "calculate_storage_waste"}
          => current_time' = current_time]_vars

----------------------------------------------------------------------------
(* Claims about the input of a classifier function                         *)

\* the fields the classifier functions put on the records they return
ClassificationFields ==
    {"classification", "days_since_access", "cold_score", "group_size", "filename",
     "duplicate_score", "efficiency_impact", "size_mb", "current_replication",
     "suggested_replication", "excess_replicas", "age_days", "cleanup_priority",
     "temp_pattern"}

\* no record of the input list carries a classification field
InputUntagged ==
    \A i \in 1..Len(file_metadata) :
        DOMAIN file_metadata[i] \cap ClassificationFields = {}

----------------------------------------------------------------------------
(* Claims about the directories of the records                             *)

PathAt(i) == Get(file_metadata[i], "path", <<>>)

\* the position of the last "/" of a path, 0 when it has none
LastSlash(path) ==
    IF \E k \in 1..Len(path) : path[k] = "/"
    THEN CHOOSE k \in 1..Len(path) :
            path[k] = "/" /\ \A j \in (k + 1)..Len(path) : path[j] # "/"
    ELSE 0

\* the path without its final segment; "/" for a file directly under the root
DirectoryWithoutFinalSegment(path) ==
    IF LastSlash(path) <= 1 THEN <<"/">> ELSE SubSeq(path, 1, LastSlash(path) - 1)

\* the positions of the records accounted to a directory
AccountedTo(dir) ==
    {i \in 1..Len(file_metadata) : DirectoryWithoutFinalSegment(PathAt(i)) = dir}

\* C21: analyze_directory_structure accounts each record to the directory
\* obtained by removing the final segment of its path, and a file directly
\* under the root (for example "/a.txt") is accounted to directory "/".
C21_RecordsAccountedToParent ==
    classifier_call = "analyze_directory_structure" =>
        /\ DOMAIN classifier_result.value.directory_stats
              = {DirectoryWithoutFinalSegment(PathAt(i)) : i \in 1..Len(file_metadata)}
        /\ \A dir \in DOMAIN classifier_result.value.directory_stats :
              classifier_result.value.directory_stats[dir].file_count
                  = Cardinality(AccountedTo(dir))

\* the same for inputs without a file directly under the root
NestedRecordsAccountedToParent ==
    (/\ classifier_call = "analyze_directory_structure"
     /\ \A i \in 1..Len(file_metadata) : LastSlash(PathAt(i)) # 1) =>
        /\ DOMAIN classifier_result.value.directory_stats
              = {DirectoryWithoutFinalSegment(PathAt(i)) : i \in 1..Len(file_metadata)}
        /\ \A dir \in DOMAIN classifier_result.value.directory_stats :
              classifier_result.value.directory_stats[dir].file_count
                  = Cardinality(AccountedTo(dir))

\* two records of one nested directory were accounted to it
NestedDirectoryAccounted ==
    /\ classifier_call = "analyze_directory_structure"
    /\ Len(file_metadata) = 2
    /\ <<"/", "d">> \in DOMAIN classifier_result.value.directory_stats
    /\ classifier_result.value.directory_stats[<<"/", "d">>].file_count = 2

----------------------------------------------------------------------------
(* Claims about the action for small files                                 *)

\* the scan's small files and the parent directory of the i-th of them
ScanSmallFiles == Get(builder_scan, "small_files", <<>>)
SmallFileParent(i) ==
    SubSeq(ScanSmallFiles[i].path, 1, LastSlash(ScanSmallFiles[i].path) - 1)

\* the positions of the scan's small files of a directory
SmallFilesIn(dir) == {i \in 1..Len(ScanSmallFiles) : SmallFileParent(i) = dir}

\* the parent directories holding at least 10 of the scan's small files
DirectoriesToConsolidate ==
    {SmallFileParent(i) : i \in {j \in 1..Len(ScanSmallFiles) :
                                    Cardinality(SmallFilesIn(SmallFileParent(j))) >= 10}}

\* the entry of a directory lists all of its small files, each once
ListsItsSmallFiles(entry) ==
    /\ entry.file_count = Cardinality(SmallFilesIn(entry.path))
    /\ Len(entry.small_files) = Cardinality(SmallFilesIn(entry.path))
    /\ {entry.small_files[k].path : k \in 1..Len(entry.small_files)}
          = {ScanSmallFiles[i].path : i \in SmallFilesIn(entry.path)}

\* C22: the small_files action of the plan lists exactly the parent
\* directories that contain at least 10 of the scan's small files (a
\* directory with exactly 10 is included, one with 9 is not), each with all
\* of its small files; no small_files action is produced when no directory
\* qualifies; its estimated_monthly_savings is 0.001 x the total number of
\* small files in the scan.
C22_DirectoriesOfTenSmallFiles ==
    builder_call = "_create_small_files_optimization" =>
        /\ ~builder_result.raised
        /\ (builder_result.value = None) <=> (DirectoriesToConsolidate = {})
        /\ builder_result.value # None =>
              /\ {builder_result.value.directories[k].path :
                      k \in 1..Len(builder_result.value.directories)}
                    = DirectoriesToConsolidate
              /\ Len(builder_result.value.directories)
                    = Cardinality(DirectoriesToConsolidate)
              /\ \A k \in 1..Len(builder_result.value.directories) :
                    ListsItsSmallFiles(builder_result.value.directories[k])
              /\ builder_result.value.estimated_monthly_savings
                    = Rat(Len(ScanSmallFiles), 1000)

\* the action for a scan with exactly 10 small files and a large file in /p
\* and 9 small files in /q: /p alone is listed, with its 10 small files, and
\* the savings count all 19
C22_Witness ==
    /\ builder_call = "_create_small_files_optimization"
    /\ Len(ScanSmallFiles) = 19
    /\ builder_scan.total_files = 20
    /\ Cardinality(SmallFilesIn(<<"/", "q">>)) = 9
    /\ builder_result.value # None
    /\ Len(builder_result.value.directories) = 1
    /\ builder_result.value.directories[1].path = <<"/", "p">>
    /\ builder_result.value.directories[1].file_count = 10
    /\ builder_result.value.estimated_monthly_savings = Rat(19, 1000)

----------------------------------------------------------------------------
(* Claims about the stored scans                                           *)

\* execute_scan returned a result with status "completed" in the last step
ScanCompleted ==
    /\ last.op = "scan_hdfs"
    /\ ~last.inner.raised
    /\ last.inner.value.status = "completed"

\* C23: every result that execute_scan returns with status "completed" is
\* stored under its scan_id, so get_scan_results(scan_id) returns it
\* afterwards - including a scan whose paths contain no files.  (The dict
\* returned is the dict stored: afterwards it reads as last.outcome.value,
\* with the scan_id the server wrote into it.)
C23_CompletedScanIsStored ==
    ScanCompleted =>
        get_scan_results(scan_results_storage, last.inner.value.scan_id)
            = Return(last.outcome.value)

\* the same for the scans that found files
ScanWithFilesIsStored ==
    (ScanCompleted /\ last.inner.value.total_files > 0) =>
        get_scan_results(scan_results_storage, last.inner.value.scan_id)
            = Return(last.outcome.value)

\* a scan that found files has ended and is stored
ScanWithFilesStored ==
    /\ ScanCompleted
    /\ last.inner.value.total_files > 0
    /\ last.inner.value.scan_id \in DOMAIN scan_results_storage

----------------------------------------------------------------------------
(* Claims about the stored plans                                           *)

\* a plan is stored under o exactly for the completed records, and it is the
\* record's plan
PlansMatchResults ==
    /\ \A o \in DOMAIN script_storage :
          /\ o \in DOMAIN optimization_results_storage
          /\ optimization_results_storage[o].status = "completed"
          /\ script_storage[o].plan = optimization_results_storage[o].optimization_plan
    /\ \A o \in DOMAIN optimization_results_storage :
          optimization_results_storage[o].status = "completed" => o \in DOMAIN script_storage

\* a step in which a generate_recommendations call ends by raising
RecommendationsFail ==
    /\ last'.op = "optimize_costs"
    /\ last'.inner.raised

\* C24: after any sequence of generate_recommendations calls, a plan is
\* stored in the script generator under id o if and only if
\* optimization_results_storage[o] has status "completed", and that stored
\* plan is the optimization_plan of that record; a failed call stores a
\* "failed" record under a fresh id and no plan.
C24_PlanStoredIffCompleted ==
    /\ []PlansMatchResults
    /\ [][RecommendationsFail =>
            /\ last'.optimization_id \notin DOMAIN optimization_results_storage
            /\ last'.optimization_id \notin DOMAIN script_storage
            /\ last'.optimization_id \in DOMAIN optimization_results_storage'
            /\ optimization_results_storage'[last'.optimization_id].status = "failed"
            /\ script_storage' = script_storage]_vars

\* a call has completed and left its plan, and a later call has failed and
\* left a "failed" record and no plan
C24_Witness ==
    \E o, f \in DOMAIN optimization_results_storage :
        /\ optimization_results_storage[o].status = "completed"
        /\ o \in DOMAIN script_storage
        /\ script_storage[o].plan.optimizations # <<>>
        /\ optimization_results_storage[f].status = "failed"
        /\ f \notin DOMAIN script_storage
        /\ last.op = "optimize_costs"
        /\ last.inner.raised
        /\ last.optimization_id = f

----------------------------------------------------------------------------
(* Claims about the deletion list                                          *)

\* no path is listed twice for deletion by the action
ListedOnce(action) ==
    \A i, j \in 1..Len(action.files) :
        i # j => action.files[i].path # action.files[j].path

\* C25: in the cleanup action built by _create_cleanup_optimization, each
\* file record of the scan appears at most once in the deletion list, also
\* when the same file is both an orphaned temp file and an empty file (size
\* 0, temp-pattern path, older than 7 days).
C25_DeletedAtMostOnce ==
    PlanBuilt => \A i \in ActionsOf("cleanup") : ListedOnce(BuiltPlan.optimizations[i])

\* every orphaned file and every empty file of the scan is in the list
CleanupListsOrphanedAndEmpty ==
    PlanBuilt =>
        \A i \in ActionsOf("cleanup") :
            {BuiltPlan.optimizations[i].files[k].path :
                    k \in 1..Len(BuiltPlan.optimizations[i].files)}
                = {last.scan_results.orphaned_files[k].path :
                        k \in 1..Len(last.scan_results.orphaned_files)}
                  \cup {last.scan_results.empty_files[k].path :
                        k \in 1..Len(last.scan_results.empty_files)}

\* a plan with a cleanup action was built
CleanupActionBuilt == PlanBuilt /\ ActionsOf("cleanup") # {}

----------------------------------------------------------------------------
(* Claims about the plan built from the fallback analysis                  *)

\* the plan was built from what _generate_fallback_analysis returned
PlanFromFallback ==
    /\ PlanBuilt
    /\ Get(last.llm_analysis.value, "source", "") = "fallback_analysis"

FallbackCategories == {"cold_data", "small_files", "cleanup"}

\* C26: when the plan is built from the fallback analysis, it contains only
\* actions of categories cold_data, small_files and cleanup: over-replicated
\* files never yield a replication action, and empty files yield a cleanup
\* action only if the scan also has at least one orphaned file.
C26_FallbackPlanCategories ==
    PlanFromFallback =>
        /\ \A i \in 1..Len(BuiltPlan.optimizations) :
                BuiltPlan.optimizations[i].category \in FallbackCategories
        /\ ActionsOf("replication") = {}
        /\ ActionsOf("cleanup") # {} => last.scan_results.orphaned_files # <<>>

\* a fallback plan for a scan with over-replicated and empty files and no
\* orphaned file: it holds no action at all
C26_Witness ==
    /\ PlanFromFallback
    /\ last.scan_results.over_replicated_files # <<>>
    /\ last.scan_results.empty_files # <<>>
    /\ last.scan_results.orphaned_files = <<>>
    /\ BuiltPlan.optimizations = <<>>

----------------------------------------------------------------------------
(* Claims about the summary of the cost report                             *)

CostReportGenerated == calculator_call = "generate_cost_report"

ReportSummary == calculator_result.value.summary

\* C27: in the summary of generate_cost_report, optimized_monthly_cost is
\* never negative and cost_reduction_percent never exceeds 100, for every
\* scan and every list of optimizations, including several optimizations of
\* the same category and categories whose affected files overlap.
C27_SummaryWithinCurrentCost ==
    CostReportGenerated =>
        /\ RLe(RZero, ReportSummary.optimized_monthly_cost)
        /\ RLe(ReportSummary.cost_reduction_percent, Int2Rat(100))

----------------------------------------------------------------------------
(* Claims about the three counts of small files                            *)

\* the small files of the directories in position 1..n of a report, summed
SmallFilesOfDirectories(report, directories) ==
    LET S[i \in 0..Len(directories)] ==
            IF i = 0 THEN 0
            ELSE S[i - 1] + report.directory_stats[directories[i]].small_files
    IN  S[Len(directories)]

\* the sum over directories of analyze_directory_structure's small_files
DirectorySmallFiles(report) ==
    SmallFilesOfDirectories(report,
                            KeysInOrder(file_metadata, LAMBDA f : DirectoryOf(PathOf(f))))

\* calculate_storage_waste's small_file_overhead_bytes divided by 150
WasteSmallFiles(report) == report.small_file_overhead_bytes \div MetadataOverheadBytes

\* C28: for the same input, the three small-file counts agree: the sum over
\* directories of analyze_directory_structure's small_files, and
\* calculate_storage_waste's small_file_overhead_bytes divided by 150, both
\* equal analyze_file_efficiency's small_files_count.
C28_SmallFileCountsAgree ==
    /\ classifier_call = "analyze_directory_structure"
        => DirectorySmallFiles(classifier_result.value)
              = analyze_file_efficiency(file_metadata).small_files_count
    /\ classifier_call = "calculate_storage_waste"
        => WasteSmallFiles(classifier_result.value)
              = analyze_file_efficiency(file_metadata).small_files_count

\* the two counts that take an empty file for a small one agree, and exceed
\* analyze_file_efficiency's count by its count of empty files
SmallFileCountsWithEmptyAgree ==
    /\ classifier_call = "analyze_directory_structure"
        => /\ DirectorySmallFiles(classifier_result.value)
                = WasteSmallFiles(calculate_storage_waste(file_metadata))
           /\ DirectorySmallFiles(classifier_result.value)
                = analyze_file_efficiency(file_metadata).small_files_count
                  + analyze_file_efficiency(file_metadata).empty_files_count
    /\ classifier_call = "calculate_storage_waste"
        => WasteSmallFiles(classifier_result.value)
                = DirectorySmallFiles(analyze_directory_structure(file_metadata))

\* the directories of a list with an empty file and a small one were counted
SmallAndEmptyCounted ==
    /\ classifier_call = "analyze_directory_structure"
    /\ analyze_file_efficiency(file_metadata).small_files_count > 0
    /\ analyze_file_efficiency(file_metadata).empty_files_count > 0

----------------------------------------------------------------------------
(* Claims about the cold score                                             *)

\* identify_cold_data was called with a positive threshold
ColdDataOfPositiveThreshold ==
    classifier_call = "identify_cold_data" /\ cold_threshold_days > 0

\* C29: for every positive cold_threshold_days, every record returned by
\* identify_cold_data has cold_score exactly 1.0, so the returned list is
\* always in input order.
C29_ColdScoreIsOne ==
    ColdDataOfPositiveThreshold =>
        /\ ~classifier_result.raised
        /\ \A k \in 1..Len(classifier_result.value) :
              classifier_result.value[k].cold_score = ROne
        /\ ListsRecordsAt(classifier_result.value, ColdPositions)

\* two cold records were returned, the second unread for longer than the first
C29_Witness ==
    /\ ColdDataOfPositiveThreshold
    /\ ~classifier_result.raised
    /\ Len(classifier_result.value) = 2
    /\ RLt(classifier_result.value[1].days_since_access,
           classifier_result.value[2].days_since_access)

----------------------------------------------------------------------------
(* Claims about deleting a scan                                            *)

\* what a delete_scan_results(scan_id) that turns the store before into the
\* store after and returns deleted must satisfy
DeletedFrom(before, after, scan_id, deleted) ==
    /\ deleted = (scan_id \in DOMAIN before)
    /\ get_scan_results(after, scan_id).raised
    /\ get_scan_results(after, scan_id).exception = "ValueError"
    /\ ~delete_scan_results(after, scan_id).deleted
    /\ DOMAIN after = (DOMAIN before) \ {scan_id}
    /\ \A other \in DOMAIN after : after[other] = before[other]

\* C30: delete_scan_results(id) returns True if and only if id was stored;
\* afterwards get_scan_results(id) raises not-found, a second
\* delete_scan_results(id) returns False, and every other stored scan is
\* unchanged.
C30_DeleteRemovesOnlyThatScan ==
    [][last'.op = "delete_scan_results" =>
            DeletedFrom(scan_results_storage, scan_results_storage',
                        last'.arg, last'.outcome.value)]_vars

\* one of two stored scans was deleted
C30_Witness ==
    /\ last.op = "delete_scan_results"
    /\ last.outcome.value = TRUE
    /\ DOMAIN scan_results_storage # {}

====
